---- MODULE Spec2Model ----
(***************************************************************************)
(* State-machine model of the UDCPR RAG chatbot (SarthiR-BOT).             *)
(*                                                                         *)
(*   Spec          the programs that keep conversation state: api_server   *)
(*                 (session store, POST /chat, DELETE /chat/{id}) and the  *)
(*                 Streamlit chat turns of chat_handler and chatbot_web.   *)
(*                 Init picks the program that runs.                       *)
(*   SpecPrompt    create_chat_prompt as a function of its arguments       *)
(*   SpecClassify  the relevance classifier as a function of query and     *)
(*                 retrieved matches, at both call sites                   *)
(*   SpecSearch    perform_web_search as a function of the query and of    *)
(*                 what its four HTTP requests do                          *)
(*                                                                         *)
(* Floating point scores are modelled in hundredths (0.75 is 75).          *)
(* A Python Optional[str] is the empty sequence (None) or <<s>>.           *)
(***************************************************************************)
EXTENDS Integers, Sequences, FiniteSets, TLC

(***************************************************************************)
(* Bounds of the model.                                                    *)
(***************************************************************************)
\* user/assistant pairs held in the logs of all api_server sessions together
MaxPairs == 6
\* size of the pool uuid.uuid4() draws from
NumUuids == 1
\* chat turns recorded in one Streamlit conversation
MaxTurns == 6
\* longest history handed to create_chat_prompt in SpecPrompt
MaxHistLen == 12
\* largest num_results handed to perform_web_search in SpecSearch
MaxNumResults == 3

(***************************************************************************)
(* Program constants.                                                      *)
(***************************************************************************)
MAX_HISTORY_MESSAGES == 10
TOP_K_RESULTS == 5
\* format_context_from_results: "score > 0.3" (api_server), "score > 0.5" (streamlit)
API_CONTEXT_THRESHOLD == 30
STREAMLIT_CONTEXT_THRESHOLD == 50
\* perform_web_search(prompt, num_results=3) at both Streamlit call sites
CALL_SITE_NUM_RESULTS == 3

(***************************************************************************)
(* Python helpers.                                                         *)
(***************************************************************************)
None == <<>>
Some(s) == <<s>>

\* dict.get(key, default)
Get(d, k, default) == IF k \in DOMAIN d THEN d[k] ELSE default

\* s[-n:] for n > 0
LastSlice(s, n) == IF Len(s) <= n THEN s ELSE SubSeq(s, Len(s) - n + 1, Len(s))

\* "\n".join(parts)
RECURSIVE JoinLines(_)
JoinLines(parts) ==
    IF Len(parts) = 0 THEN ""
    ELSE IF Len(parts) = 1 THEN parts[1]
    ELSE parts[1] \o "\n" \o JoinLines(Tail(parts))

Min(a, b) == IF a <= b THEN a ELSE b

\* outcome of an external call: it raises, or it returns val
Raises == [ok |-> FALSE, val |-> <<>>]
Returns(v) == [ok |-> TRUE, val |-> v]

ChatMessage(role, content) == [role |-> role, content |-> content]

(***************************************************************************)
(* Retrieved matches (what index.query returns in "matches").              *)
(***************************************************************************)
Match(id, score, text, page) ==
    [id |-> id, score |-> score,
     metadata |-> [text |-> text, source |-> "udcpr.pdf", page_num |-> page]]

M99 == Match("v1", 99, "FSI in residential zones is 1.1", "12")
M96 == Match("v9", 96, "Permissible FSI", "13")
M95 == Match("v10", 95, "Premium FSI", "15")
M90 == Match("v2", 90, "Basic FSI table", "14")
M76 == Match("v3", 76, "Height of buildings", "40")
M75 == Match("v4", 75, "Setbacks", "41")
M51 == Match("v11", 51, "Marginal distances", "42")
M50 == Match("v12", 50, "Open spaces", "43")
M31 == Match("v5", 31, "Parking", "77")
M30 == Match("v6", 30, "Plot sizes", "78")
MNoText == Match("v7", 80, "", "3")
\* a match that carries no score and no page (result.get defaults apply)
MNoScore == [id |-> "v8", metadata |-> [text |-> "Annexure", source |-> "udcpr.pdf"]]

\* the answers of the vector index, best match first, at most TOP_K_RESULTS
MatchLists ==
    { <<>>, <<M90>>, <<M99, M99>>, <<M99, M96, M30>>, <<M95, M76>>, <<MNoText, M76, M75>>,
      <<M75, M51, M50>>, <<M31, MNoScore>>, <<M30>>, <<MNoScore>> }

\* the queries of the pure-function specifications
Queries ==
    { "hi",
      "thanks",
      "  setback  ",
      "What is the FSI for residential zones?",
      "what is the temperature in Austin right now",
      "what is the temperature in Austin Texas right now",
      "Weather in Miami",
      "What are the most recent UDCPR amendments?",
      "hello, most recent news?",
      "new rules",
      "who won",
      "building height near a 12 m road",
      "latest building rules",
      "parking norms for malls",
      "cold storage building norms",
      "side margins of a corner plot" }

(***************************************************************************)
(* Python string operations.                                               *)
(***************************************************************************)
UpperToLower ==
    [A |-> "a", B |-> "b", C |-> "c", D |-> "d", E |-> "e", F |-> "f", G |-> "g",
     H |-> "h", I |-> "i", J |-> "j", K |-> "k", L |-> "l", M |-> "m", N |-> "n",
     O |-> "o", P |-> "p", Q |-> "q", R |-> "r", S |-> "s", T |-> "t", U |-> "u",
     V |-> "v", W |-> "w", X |-> "x", Y |-> "y", Z |-> "z"]

\* str.lower(), by halves
RECURSIVE lower(_)
lower(s) ==
    IF Len(s) = 0 THEN ""
    ELSE IF Len(s) = 1 THEN (IF s \in DOMAIN UpperToLower THEN UpperToLower[s] ELSE s)
    ELSE LET half == Len(s) \div 2
         IN  lower(SubSeq(s, 1, half)) \o lower(SubSeq(s, half + 1, Len(s)))

Whitespace == { " ", "\t", "\n", "\r" }

\* str.strip()
RECURSIVE strip(_)
strip(s) ==
    IF Len(s) = 0 THEN s
    ELSE IF SubSeq(s, 1, 1) \in Whitespace THEN strip(SubSeq(s, 2, Len(s)))
    ELSE IF SubSeq(s, Len(s), Len(s)) \in Whitespace THEN strip(SubSeq(s, 1, Len(s) - 1))
    ELSE s

\* k in text
Contains(text, k) ==
    \E t \in { text } :
        \E i \in 1..(Len(t) - Len(k) + 1) : SubSeq(t, i, i + Len(k) - 1) = k

\* any(k in text for k in keys)
AnyIn(keys, text) == \E k \in keys : Contains(text, k)

\* text.startswith(k)
StartsWith(text, k) == Len(text) >= Len(k) /\ SubSeq(text, 1, Len(k)) = k

\* text.split(sep)[0]
Before(text, sep) ==
    IF Contains(text, sep)
    THEN LET i == CHOOSE j \in 1..(Len(text) - Len(sep) + 1) :
                     /\ SubSeq(text, j, j + Len(sep) - 1) = sep
                     /\ \A l \in 1..(j - 1) : SubSeq(text, l, l + Len(sep) - 1) # sep
         IN  SubSeq(text, 1, i - 1)
    ELSE text

(***************************************************************************)
(* web_search.py                                                           *)
(***************************************************************************)
MAX_SEARCH_RESULTS == 5

WebResult(title, link, snippet, source) ==
    [title |-> title, link |-> link, snippet |-> snippet, source |-> source]

\* lines 38-58: the query is rewritten before dispatch
RewriteQuery(query) ==
    LET q == lower(query)
    IN  IF Contains(q, "temperature") \/ Contains(q, "weather")
        THEN IF ~Contains(q, "current") /\ ~Contains(q, "now") /\ ~Contains(q, "today")
             THEN "current " \o query
             ELSE query
        ELSE IF ~Contains(q, "udcpr")
                /\ AnyIn({"regulation", "building", "development", "control", "promotion",
                          "maharashtra"}, q)
        THEN "UDCPR " \o query
        ELSE IF AnyIn({"recent", "latest", "new", "update", "amendment"}, q)
        THEN IF ~Contains(q, "udcpr")
             THEN "latest UDCPR updates Maharashtra " \o query
             ELSE "latest " \o query \o " Maharashtra"
        ELSE query

SearchEngines == << "DuckDuckGo", "Bing", "Google" >>

\* lines 155-163: the link of a raw result; raw.href is the href attribute of
\* the title element (of its parent anchor for Google), "" when there is none
ExtractLink(engine, raw) ==
    IF engine = "Google" /\ StartsWith(raw.href, "/url?q=")
    THEN Before(Before(SubSeq(raw.href, Len("/url?q=") + 1, Len(raw.href)), "/url?q="), "&")
    ELSE raw.href

\* lines 146-178: the loop over search_results[:num_results].  raw.title is
\* None when the container has no title element.
RECURSIVE CollectResults(_, _, _)
CollectResults(results, engine, raws) ==
    IF Len(raws) = 0 THEN results
    ELSE LET raw     == raws[1]
             title   == IF raw.title = None THEN "" ELSE strip(raw.title[1])
             link    == ExtractLink(engine, raw)
             snippet == strip(raw.snippet)
             keep    == /\ raw.title # None
                        /\ title # ""
                        /\ link # ""
                        /\ ~\E i \in 1..Len(results) : results[i].title = title
         IN  CollectResults(
                 IF keep THEN Append(results, WebResult(title, link, snippet, engine))
                 ELSE results,
                 engine, Tail(raws))

\* lines 119-186: every engine is tried; an engine whose request or parse
\* raises contributes nothing
RECURSIVE TryEngines(_, _, _, _)
TryEngines(results, i, engines, num_results) ==
    IF i > Len(SearchEngines) THEN results
    ELSE TryEngines(
             IF engines[i].ok
             THEN CollectResults(results, SearchEngines[i],
                                 SubSeq(engines[i].val, 1, Min(num_results, Len(engines[i].val))))
             ELSE results,
             i + 1, engines, num_results)

\* lines 214-284: the canned weather records
WeatherFallback(q) ==
    LET place ==
            IF Contains(q, "texas") THEN
                [location |-> "Texas, USA",
                 weather_link |-> "https://forecast.weather.gov/MapClick.php?site=EWX&textField1=31.25&textField2=-99.41",
                 current_temp |-> IF Contains(q, "dallas") THEN "85-95°F (29-35°C)"
                                  ELSE IF Contains(q, "houston") THEN "80-95°F (27-35°C)"
                                  ELSE IF Contains(q, "austin") THEN "82-97°F (28-36°C)"
                                  ELSE IF Contains(q, "san antonio") THEN "83-98°F (28-37°C)"
                                  ELSE "75-95°F (24-35°C)",
                 conditions |-> IF ~Contains(q, "dallas") /\ Contains(q, "houston")
                                THEN "humid with a chance of afternoon showers"
                                ELSE "partly cloudy with a chance of isolated thunderstorms",
                 specific_location |-> IF Contains(q, "dallas") THEN "Dallas"
                                       ELSE IF Contains(q, "houston") THEN "Houston"
                                       ELSE IF Contains(q, "austin") THEN "Austin"
                                       ELSE IF Contains(q, "san antonio") THEN "San Antonio"
                                       ELSE "Texas"]
            ELSE IF Contains(q, "new york") THEN
                [location |-> "New York, USA",
                 weather_link |-> "https://forecast.weather.gov/MapClick.php?site=OKX&textField1=40.71&textField2=-74.01",
                 current_temp |-> "65-80°F (18-27°C)",
                 conditions |-> "partly cloudy with occasional showers",
                 specific_location |-> "New York City"]
            ELSE IF Contains(q, "california") \/ Contains(q, "los angeles") THEN
                [location |-> "Los Angeles, California, USA",
                 weather_link |-> "https://forecast.weather.gov/MapClick.php?site=LOX&textField1=34.05&textField2=-118.24",
                 current_temp |-> "70-85°F (21-29°C)",
                 conditions |-> "sunny with morning fog near the coast",
                 specific_location |-> "Los Angeles"]
            ELSE IF Contains(q, "chicago") THEN
                [location |-> "Chicago, Illinois, USA",
                 weather_link |-> "https://forecast.weather.gov/MapClick.php?site=LOT&textField1=41.88&textField2=-87.63",
                 current_temp |-> "65-80°F (18-27°C)",
                 conditions |-> "partly cloudy with a chance of showers",
                 specific_location |-> "Chicago"]
            ELSE IF Contains(q, "florida") \/ Contains(q, "miami") THEN
                [location |-> "Miami, Florida, USA",
                 weather_link |-> "https://forecast.weather.gov/MapClick.php?site=MFL&textField1=25.76&textField2=-80.19",
                 current_temp |-> "80-90°F (27-32°C)",
                 conditions |-> "partly cloudy with afternoon thunderstorms",
                 specific_location |-> "Miami"]
            ELSE
                [location |-> "the requested location",
                 weather_link |-> "https://www.weather.gov/",
                 current_temp |-> "varies by region",
                 conditions |-> "varies by region",
                 specific_location |-> "the requested location"]
    IN  << WebResult("Current Weather in " \o place.location, place.weather_link,
                     "The current temperature in " \o place.specific_location
                     \o " is approximately " \o place.current_temp
                     \o " with conditions " \o place.conditions
                     \o ". Weather patterns can change throughout the day, with temperatures typically peaking in the afternoon. The National Weather Service provides real-time updates for precise conditions.",
                     "Weather Fallback"),
           WebResult("Weather Forecast for " \o place.location, "https://www.accuweather.com/",
                     "The forecast for " \o place.specific_location \o " shows " \o place.conditions
                     \o " with temperatures around " \o place.current_temp
                     \o ". Humidity levels are moderate to high, and wind speeds are generally light to moderate. For hourly predictions, precipitation chances, and extended outlooks, check reliable weather services.",
                     "Weather Resources") >>

\* lines 287-333: the canned UDCPR records
UdcprFallback(q) ==
    << WebResult("Maharashtra Urban Development Department - Official Website",
                 "https://urban.maharashtra.gov.in/",
                 "The Unified Development Control and Promotion Regulations (UDCPR) were introduced in December 2020 to standardize building regulations across Maharashtra (excluding Mumbai, MIDC areas, and Special Planning Authorities). The UDCPR covers zoning regulations, building heights, setbacks, FSI calculations, parking requirements, and other development controls.",
                 "UDCPR Fallback") >>
    \o << IF Contains(q, "height") \/ Contains(q, "building height")
          THEN WebResult("UDCPR Building Height Regulations",
                         "https://urban.maharashtra.gov.in/udcpr",
                         "The UDCPR specifies that the maximum height of buildings depends on the road width. For roads wider than 30m, the maximum height can be up to 70m (approximately 23 floors). For roads between 15-30m, the height limit is 50m. For roads between 9-15m, the height limit is 24m. All buildings taller than 15m require fire safety clearance.",
                         "UDCPR Height Regulations")
          ELSE IF Contains(q, "fsi") \/ Contains(q, "floor space") \/ Contains(q, "far")
          THEN WebResult("UDCPR Floor Space Index (FSI) Regulations",
                         "https://urban.maharashtra.gov.in/udcpr",
                         "The basic FSI in residential zones ranges from 1.1 to 1.5 depending on the city category. Premium FSI can be purchased up to a maximum of 0.5. For commercial zones, the basic FSI ranges from 1.5 to 2.0. Transit-Oriented Development zones get an additional 0.5 FSI. Educational, medical, and public service buildings receive an additional 0.3 FSI.",
                         "UDCPR FSI Regulations")
          ELSE IF Contains(q, "parking")
          THEN WebResult("UDCPR Parking Requirements",
                         "https://urban.maharashtra.gov.in/udcpr",
                         "For residential buildings, 1 parking space is required per apartment up to 100 sq.m. For larger apartments, 2 parking spaces are required. Commercial buildings require 1 parking space per 80 sq.m of built-up area. Additional visitor parking of 10% is mandatory for all developments with more than 10 units. Mechanical parking systems are permitted to maximize space utilization.",
                         "UDCPR Parking Regulations")
          ELSE WebResult("Unified Development Control and Promotion Regulations (UDCPR)",
                         "https://urban.maharashtra.gov.in/udcpr",
                         "The UDCPR covers all aspects of urban development including land use zoning, plot sizes, road widths, open spaces, amenities, special regulations for certain buildings, environmental considerations, and fire safety norms. It aims to create a uniform set of regulations across Maharashtra while allowing for local variations through special provisions.",
                         "UDCPR General Information") >>
    \o (IF Contains(q, "latest") \/ Contains(q, "recent") \/ Contains(q, "update")
           \/ Contains(q, "new")
        THEN << WebResult("Recent UDCPR Amendments and Updates",
                          "https://urban.maharashtra.gov.in/site/notification",
                          "Recent amendments to the UDCPR include: 1) Increased FSI for redevelopment projects from 1.5 to 1.8 in certain urban areas, 2) Relaxation in side margins for narrow plots less than 9m wide, 3) New provisions for electric vehicle charging infrastructure requiring 20% of parking spaces to be EV-ready, 4) Green building incentives offering 5-10% additional FSI for buildings achieving gold or platinum green certification.",
                          "UDCPR Recent Updates") >>
        ELSE <<>>)

\* lines 336-341
GeneralFallback ==
    << WebResult("Maharashtra Urban Development Department",
                 "https://urban.maharashtra.gov.in/",
                 "The Maharashtra Urban Development Department oversees urban planning, infrastructure development, and building regulations across the state. It implements the Unified Development Control and Promotion Regulations (UDCPR) which standardize building norms across municipalities. The department also manages town planning schemes, urban renewal projects, and smart city initiatives.",
                 "Fallback") >>

\* lines 345-350 (source "Fallback") and 356-361 (source "Error Fallback")
FailureFallback(source) ==
    << WebResult("Maharashtra Urban Development Department",
                 "https://urban.maharashtra.gov.in/",
                 "Official website of Maharashtra Urban Development Department where you can find the latest UDCPR updates and notifications.",
                 source) >>

\* A faulty variant of the direct approach: the record of the failure branch
\* is added to the general record instead of replacing it.
DirectApproach_Accumulates(results, query, direct) ==
    IF ~direct.ok THEN GeneralFallback \o FailureFallback("Fallback")
    ELSE IF Contains(lower(query), "temperature") \/ Contains(lower(query), "weather")
    THEN WeatherFallback(lower(query))
    ELSE IF AnyIn({"udcpr", "maharashtra", "urban development", "building regulations"},
                  lower(query))
    THEN UdcprFallback(lower(query))
    ELSE GeneralFallback

\* lines 191-350: the direct approach.  Every branch rebinds results, so what
\* the engines collected is dropped.
DirectApproach(results, query, direct) ==
    LET q == CHOOSE l \in { lower(query) } : TRUE
    IN  IF ~direct.ok THEN FailureFallback("Fallback")
        ELSE IF Contains(q, "temperature") \/ Contains(q, "weather") THEN WeatherFallback(q)
        ELSE IF Contains(q, "udcpr") \/ Contains(q, "maharashtra")
                \/ Contains(q, "urban development") \/ Contains(q, "building regulations")
        THEN UdcprFallback(q)
        ELSE GeneralFallback

\* lines 37-352: the body of the outer try.  env.encode is what quote_plus
\* does (line 63, under no inner handler), env.engines[i] what the request to
\* engine i does (Raises, or Returns(raw results)), env.direct what the direct
\* request does.
SearchBody(query, num_results, env) ==
    LET rewritten == RewriteQuery(query)
        collected == TryEngines(<<>>, 1, env.engines, num_results)
    IN  IF ~env.encode.ok THEN [raised |-> TRUE, results |-> <<>>]
        ELSE [raised |-> FALSE, results |-> DirectApproach(collected, rewritten, env.direct)]

\* A faulty variant of perform_web_search: no outer handler.
perform_web_search_NoOuterHandler(query, num_results, env) ==
    SearchBody(query, num_results, env)

\* perform_web_search(query, num_results): the body under the outer handler of
\* lines 353-361
perform_web_search(query, num_results, env) ==
    LET body == SearchBody(query, num_results, env)
    IN  IF body.raised
        THEN [raised |-> FALSE, results |-> FailureFallback("Error Fallback")]
        ELSE body

\* format_search_results_for_context(results)
RECURSIVE CombinedInfo(_)
CombinedInfo(results) ==
    IF Len(results) = 0 THEN ""
    ELSE results[1].title \o ":\n" \o results[1].snippet \o "\n\n" \o CombinedInfo(Tail(results))

format_search_results_for_context(results) ==
    IF Len(results) = 0 THEN "No relevant information found from web search."
    ELSE LET is_udcpr_related ==
                 \E i \in 1..Len(results) :
                     \/ AnyIn({"udcpr", "maharashtra", "urban development"},
                              lower(Get(results[i], "title", "")))
                     \/ AnyIn({"udcpr", "maharashtra", "urban development"},
                              lower(Get(results[i], "snippet", "")))
             instructions ==
                 "\nInstructions for using web search results:\n"
                 \o "1. Use the above information to answer the user's question directly and completely.\n"
                 \o "2. DO NOT mention sources or cite websites in your response.\n"
                 \o "3. Present the information as factual knowledge, not as something you found from a search.\n"
                 \o "4. If the search results contain real-time information like weather, prices, or current events, include this in your answer.\n"
                 \o "5. If the information doesn't fully answer the question, acknowledge this limitation but still provide what you know.\n"
         IN  IF is_udcpr_related
             THEN "Information about UDCPR updates and regulations:\n\n"
                  \o CombinedInfo(results) \o instructions
                  \o "\nIMPORTANT: Focus on providing the actual regulations and updates about UDCPR. "
                  \o "Present this information directly as facts without mentioning sources.\n"
             ELSE "Information from web search:\n\n" \o CombinedInfo(results) \o instructions

(***************************************************************************)
(* The relevance classifier: the value of has_relevant_results at the two  *)
(* call sites that run it (TRUE = retrieved context is sufficient, the web *)
(* search is skipped).                                                     *)
(***************************************************************************)
\* chat_handler.py line 120 and chatbot_web.py line 377, in hundredths
CHAT_HANDLER_THRESHOLD == 75
CHATBOT_WEB_THRESHOLD == 95
\* minimum trimmed length: chat_handler.py line 113, chatbot_web.py line 361
CHAT_HANDLER_MIN_LENGTH == 10
CHATBOT_WEB_MIN_LENGTH == 8

greeting_patterns ==
    { "hello", "hi", "hey", "greetings", "good morning", "good afternoon",
      "good evening", "how are you", "what's up", "howdy" }

udcpr_keywords ==
    { "udcpr", "regulation", "building", "development", "control", "promotion",
      "maharashtra", "construction", "zoning", "fsi", "floor space", "height",
      "setback", "plot", "land", "urban", "planning", "architect" }

\* chat_handler.py lines 91-100
external_info_keywords_chat_handler ==
    { "recent", "latest", "new", "update", "amendment", "change",
      "modified", "revision", "current", "2023", "2024", "added", "removed",
      "most", "changes", "amendments", "notifications" }

force_web_search_phrases_chat_handler ==
    { "most recent", "latest update", "new rules", "recent changes",
      "latest amendment", "current version", "updated regulation",
      "what are the most recent", "what are the latest", "recent notification" }

\* chatbot_web.py lines 258-291
external_info_keywords_chatbot_web ==
    { "recent", "latest", "new", "update", "amendment", "change",
      "modified", "revision", "current", "2023", "2024", "2025", "added", "removed",
      "most", "changes", "amendments", "notifications", "news",
      "today", "month", "year", "week", "information", "outside", "weather",
      "temperature", "forecast", "rain", "snow", "wind", "humidity", "climate",
      "stock", "price", "market", "company", "business", "economy", "financial",
      "sports", "game", "match", "score", "team", "player", "tournament",
      "movie", "film", "show", "series", "actor", "actress", "director",
      "music", "song", "album", "artist", "band", "concert", "release",
      "politics", "election", "president", "minister", "government", "policy",
      "health", "disease", "virus", "pandemic", "vaccine", "treatment",
      "technology", "device", "gadget", "app", "software", "hardware",
      "travel", "flight", "hotel", "destination", "vacation", "tourism" }

force_web_search_phrases_chatbot_web ==
    { "most recent", "latest update", "new rules", "recent changes",
      "latest amendment", "current version", "updated regulation",
      "what are the most recent", "what are the latest", "recent notification",
      "search the web", "look online", "find online", "internet", "web search",
      "outside the document", "external information", "online information",
      "what is the temperature", "how is the weather", "what's the weather",
      "current temperature", "weather forecast", "what is the price of",
      "how much is", "what happened", "who won", "when is", "where is",
      "tell me about", "find information", "search for", "look up" }

location_keywords ==
    { "usa", "america", "us", "united states", "texas", "california", "new york",
      "florida", "chicago", "los angeles", "houston", "phoenix", "philadelphia",
      "san antonio", "san diego", "dallas", "austin", "san jose", "india", "delhi",
      "mumbai", "bangalore", "hyderabad", "chennai", "kolkata", "europe", "asia",
      "africa", "australia", "canada", "mexico", "brazil", "china", "japan",
      "russia", "uk", "france", "germany", "italy", "spain" }

question_starters ==
    { "what is", "how is", "when is", "where is", "who is", "why is",
      "can you tell me", "do you know", "i want to know", "tell me about" }

weather_terms ==
    { "temperature", "weather", "forecast", "rain", "snow", "wind", "humidity", "climate",
      "hot", "cold", "warm", "cool", "degrees", "celsius", "fahrenheit" }

time_indicators ==
    { "now", "today", "current", "latest", "recent", "right now", "at the moment",
      "currently", "presently", "this time", "this moment" }

\* any(result.get("score", 0) > threshold for result in results)
ScoreAbove(results, threshold) ==
    \E i \in 1..Len(results) : Get(results[i], "score", 0) > threshold

\* A faulty variant of the chat_handler classifier: the greeting and length
\* test comes before the forced web search.
has_relevant_results_chat_handler_GreetingFirst(prompt, results) ==
    \E p \in { lower(prompt) } :
        IF \/ AnyIn(greeting_patterns, p)
           \/ Len(strip(prompt)) < CHAT_HANDLER_MIN_LENGTH
           \/ (AnyIn(udcpr_keywords, p) /\ ~AnyIn(external_info_keywords_chat_handler, p)
               /\ Len(results) > 0)
        THEN TRUE
        ELSE IF AnyIn(force_web_search_phrases_chat_handler, p) THEN FALSE
        ELSE ScoreAbove(results, CHAT_HANDLER_THRESHOLD)

\* chat_handler.handle_chat_input lines 81-122
has_relevant_results_chat_handler(prompt, results) ==
    \E p \in { lower(prompt) } :
    LET is_greeting         == AnyIn(greeting_patterns, p)
        is_udcpr_related    == AnyIn(udcpr_keywords, p)
        needs_external_info == AnyIn(external_info_keywords_chat_handler, p)
        force_web_search    == AnyIn(force_web_search_phrases_chat_handler, p)
        has_any_results     == Len(results) > 0
    IN  IF force_web_search THEN FALSE
        ELSE IF \/ is_greeting
                \/ Len(strip(prompt)) < CHAT_HANDLER_MIN_LENGTH
                \/ (is_udcpr_related /\ ~needs_external_info /\ has_any_results)
        THEN TRUE
        ELSE ScoreAbove(results, CHAT_HANDLER_THRESHOLD)

\* chatbot_web.py lines 299-330
is_non_udcpr_query(query, contains_location, is_udcpr_related) ==
    \E q \in { lower(query) } :
        IF Contains(q, "temperature") \/ Contains(q, "weather") THEN TRUE
        ELSE IF AnyIn(question_starters, q) /\ contains_location /\ ~is_udcpr_related THEN TRUE
        ELSE IF AnyIn(weather_terms, q) THEN TRUE
        ELSE IF AnyIn(time_indicators, q) /\ ~is_udcpr_related THEN TRUE
        ELSE IF contains_location /\ ~is_udcpr_related THEN TRUE
        ELSE FALSE

\* A faulty variant of the chatbot_web classifier: the length test is missing
\* from the greeting branch.
has_relevant_results_chatbot_web_NoLengthTest(prompt, results) ==
    \E p \in { lower(prompt) } :
    \E is_udcpr_related \in { AnyIn(udcpr_keywords, p) }, contains_location \in { AnyIn(location_keywords, p) } :
        IF Contains(p, "temperature") \/ Contains(p, "weather") THEN FALSE
        ELSE IF AnyIn(force_web_search_phrases_chatbot_web, p) THEN FALSE
        ELSE IF is_non_udcpr_query(prompt, contains_location, is_udcpr_related) THEN FALSE
        ELSE IF AnyIn(greeting_patterns, p) THEN TRUE
        ELSE IF AnyIn(external_info_keywords_chatbot_web, p) THEN FALSE
        ELSE IF contains_location /\ ~is_udcpr_related THEN FALSE
        ELSE ScoreAbove(results, CHATBOT_WEB_THRESHOLD)

\* chatbot_web.py lines 248-384
has_relevant_results_chatbot_web(prompt, results) ==
    \E p \in { lower(prompt) } :
    \E is_udcpr_related \in { AnyIn(udcpr_keywords, p) }, contains_location \in { AnyIn(location_keywords, p) } :
    LET is_greeting         == AnyIn(greeting_patterns, p)
        needs_external_info == AnyIn(external_info_keywords_chatbot_web, p)
        force_web_search    == AnyIn(force_web_search_phrases_chatbot_web, p)
        non_udcpr           == is_non_udcpr_query(prompt, contains_location, is_udcpr_related)
    IN  IF Contains(p, "temperature") \/ Contains(p, "weather") THEN FALSE
        ELSE IF force_web_search THEN FALSE
        ELSE IF non_udcpr THEN FALSE
        ELSE IF is_greeting \/ Len(strip(prompt)) < CHATBOT_WEB_MIN_LENGTH THEN TRUE
        ELSE IF needs_external_info THEN FALSE
        ELSE IF contains_location /\ ~is_udcpr_related THEN FALSE
        ELSE ScoreAbove(results, CHATBOT_WEB_THRESHOLD)

(***************************************************************************)
(* State.                                                                  *)
(***************************************************************************)
VARIABLES
    program,    \* the program that runs (fixed by Init)
    boot,       \* its initialization: the environment it starts in, and how far it got
    sessions,   \* api_server.sessions: session id -> [history]
    appended,   \* api_server: session id -> every turn appended since creation
    req,        \* api_server: the last request
    resp,       \* api_server: the answer to it
    calls,      \* api_server: the external calls the last request made, in order
    tasks,      \* api_server: the handler coroutines of overlapping requests (SpecOverlap)
    st,         \* Streamlit: st.session_state (chat_history and the web search flags)
    st_log,     \* Streamlit: every turn appended to chat_history since it was last emptied
    turn,       \* Streamlit: what the last chat turn did
    call,       \* pure-function specifications: the call
    result      \* pure-function specifications: its result

vars == <<program, boot, sessions, appended, req, resp, calls, tasks, st, st_log, turn, call, result>>

apiVars == <<sessions, appended, req, resp, calls>>
stVars == <<st, st_log, turn>>
fnVars == <<call, result>>

(***************************************************************************)
(* Prompt assembly.                                                        *)
(***************************************************************************)
SYSTEM_MESSAGE_API == "You are UDCPR Saathi, an expert assistant ..."
SYSTEM_MESSAGE_STREAMLIT == "You are an expert assistant for the UDCPR ..."

\* A faulty variant of ApiContextParts: the score test is "score >= 0.3".
RECURSIVE ApiContextParts_AtLeast(_)
ApiContextParts_AtLeast(results) ==
    IF Len(results) = 0 THEN <<>>
    ELSE LET r      == results[1]
             score  == Get(r, "score", 0)
             meta   == Get(r, "metadata", <<>>)
             text   == Get(meta, "text", "")
             source == Get(meta, "source", "Unknown")
             page   == Get(meta, "page_num", "Unknown")
             rest   == ApiContextParts_AtLeast(Tail(results))
         IN  IF text # "" /\ score >= API_CONTEXT_THRESHOLD
             THEN << [part |-> "[Source: " \o source \o ", Page: " \o page \o "]\n" \o text \o "\n",
                      src  |-> [source |-> source, page |-> page, score |-> score]] >> \o rest
             ELSE rest

\* api_server.format_context_from_results, lines 138-150: the matches that are
\* kept, each with its context part and its sources entry
RECURSIVE ApiContextParts(_)
ApiContextParts(results) ==
    IF Len(results) = 0 THEN <<>>
    ELSE LET r      == results[1]
             score  == Get(r, "score", 0)
             meta   == Get(r, "metadata", <<>>)
             text   == Get(meta, "text", "")
             source == Get(meta, "source", "Unknown")
             page   == Get(meta, "page_num", "Unknown")
             rest   == ApiContextParts(Tail(results))
         IN  IF text # "" /\ score > API_CONTEXT_THRESHOLD
             THEN << [part |-> "[Source: " \o source \o ", Page: " \o page \o "]\n" \o text \o "\n",
                      src  |-> [source |-> source, page |-> page, score |-> score]] >> \o rest
             ELSE rest

\* A faulty variant of format_context_from_results: sources gets an entry for
\* every retrieved match, kept or not.
format_context_from_results_api_AllSources(results) ==
    IF Len(results) = 0
    THEN [tuple |-> FALSE,
          context |-> "No relevant information found in the UDCPR document.",
          sources |-> <<>>]
    ELSE LET kept == ApiContextParts(results)
         IN  [tuple |-> TRUE,
              context |-> IF Len(kept) = 0
                          THEN "No sufficiently relevant information found in the UDCPR document."
                          ELSE JoinLines([i \in 1..Len(kept) |-> kept[i].part]),
              sources |-> [i \in 1..Len(results) |->
                              [source |-> Get(Get(results[i], "metadata", <<>>), "source", "Unknown"),
                               page   |-> Get(Get(results[i], "metadata", <<>>), "page_num", "Unknown"),
                               score  |-> Get(results[i], "score", 0)]]]

\* api_server.format_context_from_results: the value of the return statement.
\* tuple = FALSE is the bare string returned for an empty result list, which
\* the caller's "context, sources = ..." cannot unpack.
format_context_from_results_api(results) ==
    IF Len(results) = 0
    THEN [tuple |-> FALSE,
          context |-> "No relevant information found in the UDCPR document.",
          sources |-> <<>>]
    ELSE LET kept == ApiContextParts(results)
         IN  IF Len(kept) = 0
             THEN [tuple |-> TRUE,
                   context |-> "No sufficiently relevant information found in the UDCPR document.",
                   sources |-> <<>>]
             ELSE [tuple |-> TRUE,
                   context |-> JoinLines([i \in 1..Len(kept) |-> kept[i].part]),
                   sources |-> [i \in 1..Len(kept) |-> kept[i].src]]

\* udcpr_chatbot_streamlit.format_context_from_results
RECURSIVE StreamlitContextParts(_)
StreamlitContextParts(results) ==
    IF Len(results) = 0 THEN <<>>
    ELSE LET r      == results[1]
             score  == Get(r, "score", 0)
             meta   == Get(r, "metadata", <<>>)
             text   == Get(meta, "text", "")
             source == Get(meta, "source", "Unknown")
             page   == Get(meta, "page_num", "Unknown")
             rest   == StreamlitContextParts(Tail(results))
         IN  IF text # "" /\ score > STREAMLIT_CONTEXT_THRESHOLD
             THEN << "[Source: " \o source \o ", Page: " \o page \o "]\n" \o text \o "\n" >> \o rest
             ELSE rest

format_context_from_results_streamlit(results) ==
    IF Len(results) = 0 THEN "No relevant information found in the UDCPR document."
    ELSE LET kept == StreamlitContextParts(results)
         IN  IF Len(kept) = 0
             THEN "No sufficiently relevant information found in the UDCPR document."
             ELSE JoinLines(kept)

\* A faulty variant of api_server.create_chat_prompt: the history slice is
\* chat_history[:MAX_HISTORY_MESSAGES].
create_chat_prompt_api_OldestTurns(query, context, chat_history) ==
    << ChatMessage("system", SYSTEM_MESSAGE_API) >>
    \o SubSeq(chat_history, 1, Min(Len(chat_history), MAX_HISTORY_MESSAGES))
    \o << ChatMessage("user", "Question: " \o query
                              \o "\n\nRelevant sections from the UDCPR document:\n" \o context) >>

\* api_server.create_chat_prompt
create_chat_prompt_api(query, context, chat_history) ==
    LET recent_history == IF Len(chat_history) > 0
                          THEN LastSlice(chat_history, MAX_HISTORY_MESSAGES)
                          ELSE <<>>
        user_message == "Question: " \o query
                        \o "\n\nRelevant sections from the UDCPR document:\n" \o context
    IN  << ChatMessage("system", SYSTEM_MESSAGE_API) >>
        \o [i \in 1..Len(recent_history) |->
               ChatMessage(recent_history[i].role, recent_history[i].content)]
        \o << ChatMessage("user", user_message) >>

\* A faulty variant of udcpr_chatbot_streamlit.create_chat_prompt: the web
\* search context is sent as a turn of its own.
create_chat_prompt_streamlit_WebTurn(query, context, web_search_context, chat_history) ==
    << ChatMessage("system", SYSTEM_MESSAGE_STREAMLIT) >>
    \o LastSlice(chat_history, MAX_HISTORY_MESSAGES)
    \o (IF web_search_context # None /\ web_search_context[1] # ""
        THEN << ChatMessage("system", "Additional information from web search:\n"
                                      \o web_search_context[1]) >>
        ELSE <<>>)
    \o << ChatMessage("user", "Question: " \o query
                              \o "\n\nRelevant sections from the UDCPR document:\n" \o context) >>

\* udcpr_chatbot_streamlit.create_chat_prompt
create_chat_prompt_streamlit(query, context, web_search_context, chat_history) ==
    LET recent_history == IF Len(chat_history) > 0
                          THEN LastSlice(chat_history, MAX_HISTORY_MESSAGES)
                          ELSE <<>>
        base == "Question: " \o query
                \o "\n\nRelevant sections from the UDCPR document:\n" \o context
        user_message == IF web_search_context # None /\ web_search_context[1] # ""
                        THEN base \o "\n\nAdditional information from web search:\n"
                                  \o web_search_context[1]
                        ELSE base
    IN  << ChatMessage("system", SYSTEM_MESSAGE_STREAMLIT) >>
        \o recent_history
        \o << ChatMessage("user", user_message) >>

(***************************************************************************)
(* api_server.py: POST /chat and DELETE /chat/{session_id}.  Neither       *)
(* handler contains an await, so each runs to completion as one step.  The *)
(* created_at field of a session is written once and never read; it is     *)
(* left out.                                                               *)
(***************************************************************************)
Uuids == { "uuid-" \o ToString(i) : i \in 1..NumUuids }
ClientIds == { "test-session-123" }

\* the n-th message of a conversation; numbered, so that turns can be told apart
NthMessage(n) == "question " \o ToString(n)
Responses == { "The basic FSI is 1.1." }
ReqHistories ==
    { <<>>, << ChatMessage("user", "earlier question"), ChatMessage("assistant", "earlier answer") >> }
ApiMatchLists == { <<>>, <<M90>>, <<M99, M96, M30>>, <<M30>> }

EmptyMap == [k \in {} |-> <<>>]
IdleReq == [op |-> "none", session_id |-> None, message |-> "", chat_history |-> <<>>]
IdleResp == [status |-> 0, response |-> "", session_id |-> "", sources |-> <<>>, detail |-> ""]

\* "request.session_id or ..." : None and "" are falsy
Falsy(opt) == opt = None \/ opt[1] = ""

\* line 233: session_id = request.session_id or str(uuid.uuid4())
SessionIdFor(request_session_id, fresh_uuid) ==
    IF Falsy(request_session_id) THEN fresh_uuid ELSE request_session_id[1]

\* A faulty variant of GetOrCreate: the session is initialised on every request.
GetOrCreate_AlwaysCreates(store, session_id) ==
    (session_id :> [history |-> <<>>]) @@ [k \in DOMAIN store \ {session_id} |-> store[k]]

\* lines 236-240: get or create the session
GetOrCreate(store, session_id) ==
    IF session_id \in DOMAIN store THEN store
    ELSE (session_id :> [history |-> <<>>]) @@ store

\* A faulty variant of UpdateHistory: the slice is one turn short.
UpdateHistory_OneShort(history, message, assistant_response) ==
    LET extended == history \o << ChatMessage("user", message),
                                  ChatMessage("assistant", assistant_response) >>
    IN  IF Len(extended) > MAX_HISTORY_MESSAGES
        THEN LastSlice(extended, MAX_HISTORY_MESSAGES - 1)
        ELSE extended

\* A faulty variant of UpdateHistory: the slice keeps the oldest turns.
UpdateHistory_KeepsOldest(history, message, assistant_response) ==
    LET extended == history \o << ChatMessage("user", message),
                                  ChatMessage("assistant", assistant_response) >>
    IN  SubSeq(extended, 1, Min(Len(extended), MAX_HISTORY_MESSAGES))

\* lines 261-268: extend the history with the pair, then limit its size
UpdateHistory(history, message, assistant_response) ==
    LET extended == history \o << ChatMessage("user", message),
                                  ChatMessage("assistant", assistant_response) >>
    IN  IF Len(extended) > MAX_HISTORY_MESSAGES
        THEN LastSlice(extended, MAX_HISTORY_MESSAGES)
        ELSE extended

Http500(detail) == [IdleResp EXCEPT !.status = 500, !.detail = detail]

RECURSIVE SumLen(_, _)
SumLen(f, ks) ==
    IF ks = {} THEN 0
    ELSE LET k == CHOOSE x \in ks : TRUE IN Len(f[k]) + SumLen(f, ks \ {k})

\* an external call that was made, and what it did
ExternalCall(fn, outcome) == [fn |-> fn, ok |-> outcome.ok, val |-> outcome.val]

\* POST /chat.  embedding, query and completion are the outcomes of the three
\* external calls; the prompt goes to the completion call and leaves no trace
\* in the server's state.
chat(request, fresh_uuid, embedding, query, completion) ==
    \E session_id \in { SessionIdFor(request.session_id, fresh_uuid) } :
    \E store1 \in { GetOrCreate(sessions, session_id) } :
    \E formatted \in { format_context_from_results_api(query.val) } :
    \E chat_history \in { IF Len(request.chat_history) > 0 THEN request.chat_history
                          ELSE store1[session_id].history } :
    \E messages \in { create_chat_prompt_api(request.message, formatted.context, chat_history) } :
    \E failure \in { IF ~embedding.ok THEN "embedding failed"
                     ELSE IF ~query.ok THEN "index query failed"
                     ELSE IF ~formatted.tuple THEN "too many values to unpack (expected 2)"
                     ELSE IF Len(messages) = 0 \/ ~completion.ok THEN "completion failed"
                     ELSE "" } :
    LET log1 == IF session_id \in DOMAIN sessions THEN appended
                ELSE (session_id :> <<>>) @@ appended
    IN  /\ req' = request
        /\ calls' = << ExternalCall("embeddings.create", embedding) >>
                     \o (IF embedding.ok THEN << ExternalCall("index.query", query) >> ELSE <<>>)
                     \o (IF embedding.ok /\ query.ok /\ formatted.tuple
                         THEN << ExternalCall("chat.completions.create", completion) >>
                         ELSE <<>>)
        /\ IF failure # ""
           THEN /\ sessions' = store1
                /\ appended' = log1
                /\ resp' = Http500("Internal server error: " \o failure)
           ELSE /\ sessions' = [store1 EXCEPT ![session_id].history =
                                    UpdateHistory(@, request.message, completion.val)]
                /\ appended' = [log1 EXCEPT ![session_id] =
                                   @ \o << ChatMessage("user", request.message),
                                           ChatMessage("assistant", completion.val) >>]
                /\ resp' = [status |-> 200, response |-> completion.val,
                            session_id |-> session_id, sources |-> formatted.sources,
                            detail |-> ""]

\* A faulty variant of clear_session: the whole store is emptied.
clear_session_ClearsAll(session_id) ==
    /\ req' = [op |-> "delete", session_id |-> Some(session_id),
               message |-> "", chat_history |-> <<>>]
    /\ calls' = <<>>
    /\ IF session_id \in DOMAIN sessions
       THEN /\ sessions' = EmptyMap
            /\ appended' = EmptyMap
            /\ resp' = [IdleResp EXCEPT !.status = 200,
                                        !.detail = "Session " \o session_id \o " cleared"]
       ELSE /\ UNCHANGED <<sessions, appended>>
            /\ resp' = [IdleResp EXCEPT !.status = 404, !.detail = "Session not found"]

\* DELETE /chat/{session_id}
clear_session(session_id) ==
    /\ req' = [op |-> "delete", session_id |-> Some(session_id),
               message |-> "", chat_history |-> <<>>]
    /\ calls' = <<>>
    /\ IF session_id \in DOMAIN sessions
       THEN /\ sessions' = [k \in DOMAIN sessions \ {session_id} |-> sessions[k]]
            /\ appended' = [k \in DOMAIN appended \ {session_id} |-> appended[k]]
            /\ resp' = [IdleResp EXCEPT !.status = 200,
                                        !.detail = "Session " \o session_id \o " cleared"]
       ELSE /\ UNCHANGED <<sessions, appended>>
            /\ resp' = [IdleResp EXCEPT !.status = 404, !.detail = "Session not found"]

SessionIdInputs ==
    { None, Some("") } \cup { Some(c) : c \in ClientIds } \cup { Some(k) : k \in DOMAIN sessions }

\* what the three external calls of one request can do
ExternalOutcomes ==
    { <<Raises, Raises, Raises>>, <<Returns(<<>>), Raises, Raises>> }
    \cup { <<Returns(<<>>), Returns(ms), c>> :
              ms \in ApiMatchLists, c \in { Raises } \cup { Returns(r) : r \in Responses } }

\* the requests of the model: the chat_history field and the outcomes of the
\* external calls.  A request that carries a history of its own is one whose
\* retrieval goes through.
ChatInputs ==
    { <<(<<>>), o>> : o \in ExternalOutcomes }
    \cup { <<h, o>> : h \in ReqHistories,
                      o \in { <<Returns(<<>>), Returns(<<M90>>), c>> :
                                c \in { Raises } \cup { Returns(r) : r \in Responses } } }

Chat ==
    /\ program = "api_server"
    /\ boot.phase = "serving"
    /\ SumLen(appended, DOMAIN appended) < 2 * MaxPairs
    /\ \E sid \in SessionIdInputs, i \in ChatInputs :
          \E u \in IF Falsy(sid) THEN Uuids \ DOMAIN sessions ELSE { "" } :
              LET id == SessionIdFor(sid, u)
                  n  == IF id \in DOMAIN appended THEN Len(appended[id]) \div 2 + 1 ELSE 1
                  h  == i[1]
                  o  == i[2]
              IN  chat([op |-> "chat", session_id |-> sid, message |-> NthMessage(n),
                        chat_history |-> h],
                       u, o[1], o[2], o[3])
    /\ UNCHANGED <<program, boot, tasks, stVars, fnVars>>

ClearSession ==
    /\ program = "api_server"
    /\ boot.phase = "serving"
    /\ \E id \in ClientIds \cup Uuids : clear_session(id)
    /\ UNCHANGED <<program, boot, tasks, stVars, fnVars>>

\* an external call that raises an exception whose str() is e
Fails(e) == [ok |-> FALSE, val |-> e]

\* what the two probes of the health check can do
ModelsListOutcomes == { Returns("models"), Fails("openai: connection error") }
IndexStatsOutcomes == { Returns("stats"), Fails("pinecone: connection error") }

\* A faulty variant of health_check: only the vector index is probed.
health_check_IndexOnly(models_list, describe_index_stats) ==
    /\ req' = [IdleReq EXCEPT !.op = "health"]
    /\ calls' = << ExternalCall("index.describe_index_stats", describe_index_stats) >>
    /\ resp' = IF describe_index_stats.ok
               THEN [IdleResp EXCEPT !.status = 200, !.response = "healthy",
                                     !.detail = "All services are operational"]
               ELSE [IdleResp EXCEPT !.status = 503,
                                     !.detail = "Service unhealthy: " \o describe_index_stats.val]
    /\ UNCHANGED <<sessions, appended>>

\* GET /health.  models_list and describe_index_stats are the outcomes of the
\* two probes; the second is not made when the first raises.  In the answer,
\* response is the status field of HealthResponse and detail its message.
health_check(models_list, describe_index_stats) ==
    /\ req' = [IdleReq EXCEPT !.op = "health"]
    /\ calls' = << ExternalCall("models.list", models_list) >>
                \o (IF models_list.ok
                    THEN << ExternalCall("index.describe_index_stats", describe_index_stats) >>
                    ELSE <<>>)
    /\ resp' = IF ~models_list.ok
               THEN [IdleResp EXCEPT !.status = 503,
                                     !.detail = "Service unhealthy: " \o models_list.val]
               ELSE IF ~describe_index_stats.ok
               THEN [IdleResp EXCEPT !.status = 503,
                                     !.detail = "Service unhealthy: " \o describe_index_stats.val]
               ELSE [IdleResp EXCEPT !.status = 200, !.response = "healthy",
                                     !.detail = "All services are operational"]
    /\ UNCHANGED <<sessions, appended>>

HealthCheck ==
    /\ program = "api_server"
    /\ boot.phase = "serving"
    /\ \E m \in ModelsListOutcomes, d \in IndexStatsOutcomes : health_check(m, d)
    /\ UNCHANGED <<program, boot, tasks, stVars, fnVars>>

(***************************************************************************)
(* What the HTTP requests of perform_web_search can do.                    *)
(***************************************************************************)
RawResult(title, href, snippet) == [title |-> title, href |-> href, snippet |-> snippet]

RawA == RawResult(Some("UDCPR 2020"), "https://example.org/udcpr", "Official text of the UDCPR")
\* same title as RawA once stripped, other link
RawA2 == RawResult(Some("  UDCPR 2020 "), "https://mirror.example.org/udcpr", "Mirror")
RawB == RawResult(Some("Austin weather"), "/url?q=https://example.org/austin&sa=U", " 90F and sunny ")
RawNoTitle == RawResult(None, "https://example.org/x", "no title element")
RawNoLink == RawResult(Some("Unlinked"), "", "no href")

EngineAnswers ==
    { Raises, Returns(<<>>), Returns(<<RawA, RawB>>), Returns(<<RawNoTitle, RawA2, RawA>>),
      Returns(<<RawNoLink, RawB, RawA2>>) }

SearchEnv(encode, e1, e2, e3, direct) ==
    [encode |-> encode, engines |-> <<e1, e2, e3>>, direct |-> direct]

TotalNetworkFailure == SearchEnv(Returns("q"), Raises, Raises, Raises, Raises)

\* when quote_plus raises no request is made
SearchEnvs ==
    { SearchEnv(Returns("q"), e1, e2, e3, d) :
        e1 \in EngineAnswers, e2 \in EngineAnswers, e3 \in EngineAnswers,
        d \in { Raises, Returns("<html>") } }
    \cup { SearchEnv(Raises, Raises, Raises, Raises, Raises) }

(***************************************************************************)
(* rag_chatbot.py is imported by chat_handler.py and chatbot_web.py but is *)
(* not among the sources.  Its three functions are modelled from the       *)
(* specification (sections 4.5 and 4.7); udcpr_chatbot_streamlit.py holds  *)
(* standalone copies of the first two with the same signatures.            *)
(***************************************************************************)
format_context_from_results_rag(results) == format_context_from_results_streamlit(results)

create_chat_prompt_rag(query, context, web_search_context, chat_history) ==
    create_chat_prompt_streamlit(query, context, web_search_context, chat_history)

\* the chat_history entry of the dictionary generate_response returns
generate_response_history(chat_history, query, response) ==
    LastSlice(chat_history \o << ChatMessage("user", query), ChatMessage("assistant", response) >>,
              MAX_HISTORY_MESSAGES)

(***************************************************************************)
(* The Streamlit chat turn of chat_handler.handle_chat_input and of        *)
(* chatbot_web (the two blocks differ in the classifier and in how         *)
(* use_web_search is computed).  Supabase is off (chatbot_web.py line 155  *)
(* forces it off), so the history lives in st.session_state only.  The     *)
(* display list st.session_state.messages belongs to the rendering layer   *)
(* and is left out.                                                        *)
(***************************************************************************)
IdleTurn ==
    [site |-> "none", prompt |-> "", env |-> None, steps |-> <<>>, has_relevant_results |-> None,
     web_results |-> <<>>, web_search_context |-> None, messages |-> <<>>,
     outcome |-> "none", response |-> "", partial |-> ""]

\* A faulty variant of UseWebSearch: the flag alone decides, also where the
\* web_search module could not be imported.
UseWebSearch_FlagOnly(site, state) == state.use_web_search

\* chat_handler.py line 69, chatbot_web.py line 236
UseWebSearch(site, state) ==
    IF site = "chat_handler" THEN state.use_web_search /\ state.WEB_SEARCH_AVAILABLE
    ELSE state.use_web_search

\* the classifier of the call site
HasRelevantResults(site, prompt, results) ==
    IF site = "chat_handler" THEN has_relevant_results_chat_handler(prompt, results)
    ELSE has_relevant_results_chatbot_web(prompt, results)

\* chat_handler.py lines 168-173, chatbot_web.py lines 436-441
AppendAndLimit(chat_history, prompt, full_response) ==
    LET extended == chat_history \o << ChatMessage("user", prompt),
                                       ChatMessage("assistant", full_response) >>
    IN  IF Len(extended) > MAX_HISTORY_MESSAGES
        THEN LastSlice(extended, MAX_HISTORY_MESSAGES)
        ELSE extended

\* One chat turn.  search is what search_pinecone does, env what the requests
\* of the web search do; completions holds the pairs <<stream, fallback>> of
\* what the streamed completion can do (Returns the concatenated fragments, or
\* fails with the text received so far) and what generate_response then does.
handle_chat_input(site, prompt, search, env, completions) ==
    \E use_web_search \in { UseWebSearch(site, st) } :
    \E classified \in { search.ok /\ use_web_search } :
    \E has_relevant_results \in
          { IF classified THEN HasRelevantResults(site, prompt, search.val) ELSE FALSE } :
    \E searched \in { classified /\ ~has_relevant_results } :
    \E web_results \in
          { IF searched THEN perform_web_search(prompt, CALL_SITE_NUM_RESULTS, env).results
            ELSE <<>> } :
    \E web_search_context \in
          { IF searched /\ Len(web_results) > 0
            THEN Some(format_search_results_for_context(web_results))
            ELSE None } :
    \E messages \in
          { IF search.ok
            THEN create_chat_prompt_rag(prompt, format_context_from_results_rag(search.val),
                                        web_search_context, st.chat_history)
            ELSE <<>> } :
    \E completion \in completions :
    LET stream   == completion[1]
        fallback == completion[2]
        pair(r) == << ChatMessage("user", prompt), ChatMessage("assistant", r) >>
        tried   == IF ~search.ok THEN << "retrieval" >>
                   ELSE << "retrieval" >>
                        \o (IF classified THEN << "classify" >> ELSE <<>>)
                        \o (IF searched THEN << "web_search" >> ELSE <<>>)
                        \o << "prompt", "completion" >>
        seen    == [IdleTurn EXCEPT
                       !.site = site, !.prompt = prompt,
                       !.env = IF searched THEN Some(env) ELSE None,
                       !.has_relevant_results =
                           IF classified THEN Some(has_relevant_results) ELSE None,
                       !.web_results = web_results,
                       !.web_search_context = web_search_context,
                       !.messages = messages,
                       !.partial = IF search.ok /\ ~stream.ok THEN stream.val ELSE ""]
    IN  IF search.ok /\ stream.ok
        THEN /\ st' = [st EXCEPT !.chat_history = AppendAndLimit(@, prompt, stream.val)]
             /\ st_log' = st_log \o pair(stream.val)
             /\ turn' = [seen EXCEPT !.steps = tried \o << "history" >>,
                                     !.outcome = "streamed", !.response = stream.val]
        ELSE IF fallback.ok
        THEN /\ st' = [st EXCEPT !.chat_history =
                                     generate_response_history(@, prompt, fallback.val)]
             /\ st_log' = st_log \o pair(fallback.val)
             /\ turn' = [seen EXCEPT !.steps = tried \o << "generate_response", "history" >>,
                                     !.outcome = "fallback", !.response = fallback.val]
        ELSE /\ UNCHANGED <<st, st_log>>
             /\ turn' = [seen EXCEPT !.steps = tried \o << "generate_response" >>,
                                     !.outcome = "error"]

\* chat_handler.add_conversation_buttons: "Clear Conversation"
clear_conversation ==
    /\ st' = [st EXCEPT !.chat_history = <<>>]
    /\ st_log' = <<>>
    /\ turn' = IdleTurn

\* the prompts of a conversation, in the order they are typed: the k-th turn
\* of a conversation sends the k-th prompt (and starts over after the last)
Script ==
    << "What is the FSI for residential zones?",
       "what is the temperature in Austin right now",
       "hi",
       "What are the most recent UDCPR amendments?",
       "parking norms for malls",
       "what is the temperature in Austin Texas right now" >>

NextPrompt(log) == Script[((Len(log) \div 2) % Len(Script)) + 1]

TurnMatchLists == { <<>>, <<M90>> }
TurnEnvs ==
    { TotalNetworkFailure,
      SearchEnv(Returns("q"), Raises, Returns(<<>>), Raises, Returns("<html>")),
      SearchEnv(Returns("q"), Returns(<<RawA, RawB>>), Raises, Returns(<<>>), Returns("<html>")) }
FallbackOutcomes == { Raises } \cup { Returns(r) : r \in Responses }

\* the streamed completion: all fragments arrive, or the stream raises, before
\* the first fragment or after some (val is the text received until then)
PartialText == "The basic"
StreamFailures == { Fails(""), Fails(PartialText) }
StreamOutcomes == { Returns(r) : r \in Responses } \cup StreamFailures

\* what retrieval and the requests of the web search can do in one turn
TurnSearches ==
    { <<Raises, TotalNetworkFailure>> }
    \cup { <<Returns(ms), env>> : ms \in TurnMatchLists, env \in TurnEnvs }

\* what the streamed completion and generate_response can do after it (when
\* retrieval raised no completion is streamed)
CompletionOutcomes(search) ==
    IF ~search.ok THEN { <<Fails(""), f>> : f \in FallbackOutcomes }
    ELSE { <<Returns(r), Raises>> : r \in Responses }
         \cup { <<s, f>> : s \in StreamFailures, f \in FallbackOutcomes }

HandleChatInput ==
    /\ program = "chat_handler"
    /\ Len(st_log) < 2 * MaxTurns
    /\ \E o \in TurnSearches :
          handle_chat_input("chat_handler", NextPrompt(st_log), o[1], o[2],
                            CompletionOutcomes(o[1]))
    /\ UNCHANGED <<program, boot, tasks, apiVars, fnVars>>

ChatbotWebInput ==
    /\ program = "chatbot_web"
    /\ Len(st_log) < 2 * MaxTurns
    /\ \E o \in TurnSearches :
          handle_chat_input("chatbot_web", NextPrompt(st_log), o[1], o[2],
                            CompletionOutcomes(o[1]))
    /\ UNCHANGED <<program, boot, tasks, apiVars, fnVars>>

ClearConversation ==
    /\ program = "chat_handler"
    /\ clear_conversation
    /\ UNCHANGED <<program, boot, tasks, apiVars, fnVars>>

(***************************************************************************)
(* Initialization: api_server.startup_event and the top of the             *)
(* udcpr_chatbot_streamlit script.                                         *)
(***************************************************************************)
INDEX_NAME == "udcpr-rag-index"

\* the environment a program starts in: the two credentials, and what
\* pinecone.Pinecone(...).list_indexes() does
BootEnv(openai_key, pinecone_key, list_indexes) ==
    [OPENAI_API_KEY |-> openai_key, PINECONE_API_KEY |-> pinecone_key,
     list_indexes |-> list_indexes]

GoodEnv == BootEnv(TRUE, TRUE, Returns(<< INDEX_NAME >>))

BootEnvs ==
    { BootEnv(o, p, l) :
        o \in BOOLEAN, p \in BOOLEAN,
        l \in { Raises, Returns(<<>>), Returns(<< "other-index" >>), Returns(<< INDEX_NAME >>),
                Returns(<< "other-index", INDEX_NAME >>) } }

\* A faulty variant of startup_event: the handler logs the exception and does
\* not raise it again.
startup_event_Swallows(env) == "serving"

\* api_server.startup_event: "serving" when it returns, "failed" when it
\* raises (the server then exits without serving a request)
startup_event(env) ==
    IF ~env.OPENAI_API_KEY THEN "failed"
    ELSE IF ~env.PINECONE_API_KEY THEN "failed"
    ELSE IF ~env.list_indexes.ok THEN "failed"
    ELSE IF ~\E i \in 1..Len(env.list_indexes.val) : env.list_indexes.val[i] = INDEX_NAME
    THEN "failed"
    ELSE "serving"

\* udcpr_chatbot_streamlit.py lines 148-190: "serving" when the script goes
\* on to the chat input, "stopped" when it calls st.stop()
script_init(env) ==
    IF ~env.OPENAI_API_KEY THEN "stopped"
    ELSE IF ~env.PINECONE_API_KEY THEN "stopped"
    ELSE IF ~env.list_indexes.ok THEN "stopped"
    ELSE IF ~\E i \in 1..Len(env.list_indexes.val) : env.list_indexes.val[i] = INDEX_NAME
    THEN "stopped"
    ELSE "serving"

\* the initialization each program starts from.  The credentials checks of
\* chat_handler and chatbot_web are in rag_chatbot; these two start serving.
BootStates(p) ==
    IF p \in { "api_server", "udcpr_chatbot_streamlit" }
    THEN { [phase |-> "starting", env |-> e] : e \in BootEnvs }
    ELSE { [phase |-> "serving", env |-> GoodEnv] }

Startup ==
    /\ program = "api_server"
    /\ boot.phase = "starting"
    /\ boot' = [boot EXCEPT !.phase = startup_event(boot.env)]
    /\ UNCHANGED <<program, tasks, apiVars, stVars, fnVars>>

\* the first run of the script, when the page is opened
RunScript ==
    /\ program = "udcpr_chatbot_streamlit"
    /\ boot.phase = "starting"
    /\ boot' = [boot EXCEPT !.phase = script_init(boot.env)]
    /\ UNCHANGED <<program, tasks, apiVars, stVars, fnVars>>

(***************************************************************************)
(* The chat turn of udcpr_chatbot_streamlit (lines 297-355): retrieval,    *)
(* prompt, streamed completion, history; one handler for every exception,  *)
(* which shows the error.  Every submission runs the script from the top.  *)
(***************************************************************************)
udcpr_chat_input(prompt, search, stream) ==
    \E messages \in
          { IF search.ok
            THEN create_chat_prompt_streamlit(
                     prompt, format_context_from_results_streamlit(search.val),
                     None, st.chat_history)
            ELSE <<>> } :
    LET seen == [IdleTurn EXCEPT !.site = "udcpr_chatbot_streamlit", !.prompt = prompt,
                                 !.messages = messages,
                                 !.partial = IF search.ok /\ ~stream.ok THEN stream.val ELSE ""]
    IN  IF search.ok /\ stream.ok
        THEN /\ st' = [st EXCEPT !.chat_history = AppendAndLimit(@, prompt, stream.val)]
             /\ st_log' = st_log \o << ChatMessage("user", prompt),
                                       ChatMessage("assistant", stream.val) >>
             /\ turn' = [seen EXCEPT !.steps = << "retrieval", "prompt", "completion", "history" >>,
                                     !.outcome = "streamed", !.response = stream.val]
        ELSE /\ UNCHANGED <<st, st_log>>
             /\ turn' = [seen EXCEPT !.steps = IF search.ok
                                               THEN << "retrieval", "prompt", "completion" >>
                                               ELSE << "retrieval" >>,
                                     !.outcome = "error"]

UdcprChatInput ==
    /\ program = "udcpr_chatbot_streamlit"
    /\ boot.phase = "serving"
    /\ script_init(boot.env) = "serving"
    /\ Len(st_log) < 2 * MaxTurns
    /\ \E search \in { Raises } \cup { Returns(ms) : ms \in TurnMatchLists },
          stream \in StreamOutcomes :
          udcpr_chat_input(NextPrompt(st_log), search, stream)
    /\ UNCHANGED <<program, boot, tasks, apiVars, fnVars>>

\* udcpr_chatbot_streamlit.py lines 360-364: "Clear Conversation"
UdcprClearConversation ==
    /\ program = "udcpr_chatbot_streamlit"
    /\ boot.phase = "serving"
    /\ script_init(boot.env) = "serving"
    /\ clear_conversation
    /\ UNCHANGED <<program, boot, tasks, apiVars, fnVars>>

(***************************************************************************)
(* Spec: the programs that keep conversation state.                        *)
(***************************************************************************)
Programs == { "api_server", "chat_handler", "chatbot_web", "udcpr_chatbot_streamlit" }

NoCall == [fn |-> "none"]
\* the pure-function specifications start no program
NoBoot == [phase |-> "none"]
\* no handler coroutine is alive
NoTasks == [running |-> 0, handlers |-> <<>>]
NoResult == [done |-> FALSE]

\* st.session_state when the page is first rendered.  use_web_search is the
\* configured flag; WEB_SEARCH_AVAILABLE is whether web_search could be imported.
SessionStates(p) ==
    IF p = "chat_handler"
    THEN { [chat_history |-> <<>>, use_web_search |-> u, WEB_SEARCH_AVAILABLE |-> a] :
              u \in BOOLEAN, a \in BOOLEAN }
    ELSE IF p = "chatbot_web"
    THEN { [chat_history |-> <<>>, use_web_search |-> u, WEB_SEARCH_AVAILABLE |-> TRUE] :
              u \in BOOLEAN }
    ELSE { [chat_history |-> <<>>, use_web_search |-> FALSE, WEB_SEARCH_AVAILABLE |-> FALSE] }

Idle ==
    /\ sessions = EmptyMap
    /\ appended = EmptyMap
    /\ req = IdleReq
    /\ resp = IdleResp
    /\ calls = <<>>
    /\ tasks = NoTasks
    /\ st_log = <<>>
    /\ turn = IdleTurn

Init ==
    /\ program \in Programs
    /\ boot \in BootStates(program)
    /\ Idle
    /\ st \in SessionStates(program)
    /\ call = NoCall
    /\ result = NoResult

Next ==
    \/ Startup
    \/ RunScript
    \/ Chat
    \/ ClearSession
    \/ HealthCheck
    \/ HandleChatInput
    \/ ChatbotWebInput
    \/ ClearConversation
    \/ UdcprChatInput
    \/ UdcprClearConversation

Spec == Init /\ [][Next]_vars

(***************************************************************************)
(* SpecPrompt: create_chat_prompt as a function of its arguments.          *)
(***************************************************************************)
\* a history of n turns with distinct contents, user and assistant alternating
History(n) ==
    [i \in 1..n |-> ChatMessage(IF i % 2 = 1 THEN "user" ELSE "assistant",
                                "turn " \o ToString(i))]

Histories ==
    { History(n) : n \in 0..MaxHistLen }
    \cup { << ChatMessage("user", "a"), ChatMessage("user", "b"), ChatMessage("assistant", "c") >> }

PromptQueries == { "What is the FSI for residential zones?", "hi" }
PromptMatchLists == { <<>>, <<M90>>, <<M99, M96, M30>>, <<M30>> }
PromptWebContexts ==
    { None, Some(""), Some(format_search_results_for_context(GeneralFallback)) }

PromptCalls ==
    { [fn |-> "create_chat_prompt", query |-> q, matches |-> ms,
       web_search_context |-> w, chat_history |-> h] :
        q \in PromptQueries, ms \in PromptMatchLists, w \in PromptWebContexts, h \in Histories }

InitPrompt ==
    /\ program = "create_chat_prompt"
    /\ Idle
    /\ boot = NoBoot
    /\ st \in SessionStates(program)
    /\ call \in PromptCalls
    /\ result = NoResult

CreateChatPromptApi ==
    /\ call.fn = "create_chat_prompt"
    /\ ~result.done
    /\ result' = [done |-> TRUE, site |-> "api_server",
                  messages |-> create_chat_prompt_api(
                                   call.query,
                                   format_context_from_results_api(call.matches).context,
                                   call.chat_history)]
    /\ UNCHANGED <<program, boot, tasks, apiVars, stVars, call>>

CreateChatPromptStreamlit ==
    /\ call.fn = "create_chat_prompt"
    /\ ~result.done
    /\ result' = [done |-> TRUE, site |-> "udcpr_chatbot_streamlit",
                  messages |-> create_chat_prompt_streamlit(
                                   call.query,
                                   format_context_from_results_streamlit(call.matches),
                                   call.web_search_context,
                                   call.chat_history)]
    /\ UNCHANGED <<program, boot, tasks, apiVars, stVars, call>>

NextPromptSpec == CreateChatPromptApi \/ CreateChatPromptStreamlit

SpecPrompt == InitPrompt /\ [][NextPromptSpec]_vars

(***************************************************************************)
(* SpecClassify: the relevance classifier at its two call sites.           *)
(***************************************************************************)
ClassifyCalls ==
    { [fn |-> "has_relevant_results", prompt |-> q, results |-> ms] :
        q \in Queries, ms \in MatchLists }

InitClassify ==
    /\ program = "classifier"
    /\ Idle
    /\ boot = NoBoot
    /\ st \in SessionStates(program)
    /\ call \in ClassifyCalls
    /\ result = NoResult

ClassifyChatHandler ==
    /\ call.fn = "has_relevant_results"
    /\ ~result.done
    /\ result' = [done |-> TRUE, site |-> "chat_handler",
                  has_relevant_results |->
                      has_relevant_results_chat_handler(call.prompt, call.results)]
    /\ UNCHANGED <<program, boot, tasks, apiVars, stVars, call>>

ClassifyChatbotWeb ==
    /\ call.fn = "has_relevant_results"
    /\ ~result.done
    /\ result' = [done |-> TRUE, site |-> "chatbot_web",
                  is_non_udcpr_query |->
                      is_non_udcpr_query(call.prompt,
                                         AnyIn(location_keywords, lower(call.prompt)),
                                         AnyIn(udcpr_keywords, lower(call.prompt))),
                  has_relevant_results |->
                      has_relevant_results_chatbot_web(call.prompt, call.results)]
    /\ UNCHANGED <<program, boot, tasks, apiVars, stVars, call>>

NextClassify == ClassifyChatHandler \/ ClassifyChatbotWeb

SpecClassify == InitClassify /\ [][NextClassify]_vars

(***************************************************************************)
(* SpecSearch: perform_web_search as a function of the query, num_results  *)
(* and what its requests do.                                               *)
(***************************************************************************)
SearchCalls ==
    { [fn |-> "perform_web_search", query |-> q, num_results |-> n, env |-> e] :
        q \in Queries, n \in 1..MaxNumResults, e \in SearchEnvs }

InitSearch ==
    /\ program = "web_search"
    /\ Idle
    /\ boot = NoBoot
    /\ st \in SessionStates(program)
    /\ call \in SearchCalls
    /\ result = NoResult

PerformWebSearch ==
    /\ call.fn = "perform_web_search"
    /\ ~result.done
    /\ LET out == perform_web_search(call.query, call.num_results, call.env)
       IN  result' = [done |-> TRUE, raised |-> out.raised, results |-> out.results,
                      collected |-> TryEngines(<<>>, 1, call.env.engines, call.num_results)]
    /\ UNCHANGED <<program, boot, tasks, apiVars, stVars, call>>

NextSearch == PerformWebSearch

SpecSearch == InitSearch /\ [][NextSearch]_vars

(***************************************************************************)
(* SpecContext: format_context_from_results as a function of the matches.  *)
(***************************************************************************)
\* longest match list handed to format_context_from_results in SpecContext
MaxMatches == 3

MatchPool == { M99, M96, M95, M90, M76, M75, M51, M50, M31, M30, MNoText, MNoScore }

\* the answers of the vector index of at most n matches, best score first
RankedLists(n) ==
    { s \in UNION { [1..k -> MatchPool] : k \in 0..n } :
        \A i \in 1..(Len(s) - 1) : Get(s[i], "score", 0) >= Get(s[i + 1], "score", 0) }

ContextCalls ==
    { [fn |-> "format_context_from_results", results |-> ms] : ms \in RankedLists(MaxMatches) }

InitContext ==
    /\ program = "format_context_from_results"
    /\ Idle
    /\ boot = NoBoot
    /\ st \in SessionStates(program)
    /\ call \in ContextCalls
    /\ result = NoResult

FormatContextApi ==
    /\ call.fn = "format_context_from_results"
    /\ ~result.done
    /\ LET out == format_context_from_results_api(call.results)
       IN  result' = [done |-> TRUE, site |-> "api_server", tuple |-> out.tuple,
                      context |-> out.context, sources |-> out.sources]
    /\ UNCHANGED <<program, boot, tasks, apiVars, stVars, call>>

FormatContextStreamlit ==
    /\ call.fn = "format_context_from_results"
    /\ ~result.done
    /\ result' = [done |-> TRUE, site |-> "udcpr_chatbot_streamlit", tuple |-> FALSE,
                  context |-> format_context_from_results_streamlit(call.results),
                  sources |-> <<>>]
    /\ UNCHANGED <<program, boot, tasks, apiVars, stVars, call>>

NextContext == FormatContextApi \/ FormatContextStreamlit

SpecContext == InitContext /\ [][NextContext]_vars

(***************************************************************************)
(* SpecOverlap: a POST /chat overlapping with a second POST /chat or with a *)
(* DELETE /chat/{id}.  The handlers are coroutines (async def) that the     *)
(* server's event loop runs; the loop can run another handler only while   *)
(* this one is suspended at an await.  chat is modelled statement by       *)
(* statement, so that what overlapping handlers can do to the store        *)
(* follows from where a handler can be suspended.                          *)
(***************************************************************************)
\* the statements of chat, in order
HandlerPcs == << "create", "embed", "query", "complete", "extend", "limit_read", "limit_write" >>

\* A faulty variant of YieldPoints: the three external calls are awaited.
YieldPoints_Awaited == { "embed", "query", "complete" }

\* A faulty variant of YieldPoints: chat is a plain def that the server runs
\* in a thread pool, where a handler can be preempted after every statement.
YieldPoints_Threaded == { HandlerPcs[i] : i \in 1..Len(HandlerPcs) }

\* the statements of chat after which the event loop can run another handler:
\* those that hold an await.  The body of chat (lines 229-274) holds none; the
\* embedding, index and completion calls are blocking calls.
YieldPoints == {}

\* the handler of request number n, before its first statement
Handler(sid, message, answer, outcomes) ==
    [request    |-> [op |-> "chat", session_id |-> Some(sid), message |-> message,
                     chat_history |-> <<>>],
     embedding  |-> outcomes[1], query |-> outcomes[2],
     completion |-> IF outcomes[3].ok THEN Returns(answer) ELSE outcomes[3],
     pc         |-> "create", session_id |-> "", sliced |-> None, status |-> 0, error |-> ""]

\* the handler of a DELETE /chat/{sid}, before its first statement
DeleteHandler(sid) ==
    [request |-> [op |-> "delete", session_id |-> Some(sid), message |-> "",
                  chat_history |-> <<>>],
     pc      |-> "delete", session_id |-> sid, status |-> 0, error |-> ""]

\* the session store when the first request arrives: empty, or holding the
\* client's session with 8 or 10 turns
OverlapStores ==
    { EmptyMap }
    \cup { ("test-session-123" :> [history |-> History(n)]) : n \in { 8, MAX_HISTORY_MESSAGES } }

OverlapOutcomes ==
    { <<Raises, Raises, Raises>>,
      <<Returns(<<>>), Raises, Raises>>,
      <<Returns(<<>>), Returns(<<>>), Raises>>,
      <<Returns(<<>>), Returns(<<M90>>), Raises>>,
      <<Returns(<<>>), Returns(<<M90>>), Returns("")>> }

InitOverlap ==
    /\ program = "api_server"
    /\ boot = [phase |-> "serving", env |-> GoodEnv]
    /\ sessions \in OverlapStores
    /\ appended = EmptyMap
    /\ req = IdleReq
    /\ resp = IdleResp
    /\ calls = <<>>
    /\ \E sidB \in { "test-session-123", "other-session" }, oA \in OverlapOutcomes :
       \E second \in { Handler(sidB, "question B", "answer B", oB) : oB \in OverlapOutcomes }
                      \cup { DeleteHandler(sidB) } :
          tasks = [running  |-> 0,
                   handlers |-> << Handler("test-session-123", "question A", "answer A", oA),
                                   second >>]
    /\ st \in SessionStates(program)
    /\ st_log = <<>>
    /\ turn = IdleTurn
    /\ call = NoCall
    /\ result = NoResult

\* handler t executes its next statement
chat_step(t) ==
    LET h    == tasks.handlers[t]
        id   == h.session_id
        fail == [h EXCEPT !.pc = "done", !.status = 500, !.error = "external call"]
        \* sessions[session_id] on an id that is not in the store
        key_error == [h EXCEPT !.pc = "done", !.status = 500, !.error = "KeyError"]
        goto(hh, pc) == [hh EXCEPT !.pc = pc]
        next ==
            CASE h.pc = "create" ->
                   \* lines 233-240
                   LET sid == SessionIdFor(h.request.session_id, "uuid-1")
                   IN  [store |-> GetOrCreate(sessions, sid),
                        h     |-> [h EXCEPT !.pc = "embed", !.session_id = sid]]
              [] h.pc = "embed" ->
                   \* line 243, get_query_embedding
                   [store |-> sessions, h |-> IF h.embedding.ok THEN goto(h, "query") ELSE fail]
              [] h.pc = "query" ->
                   \* lines 243-244: index.query and the unpacking of the context
                   [store |-> sessions,
                    h     |-> IF h.query.ok /\ format_context_from_results_api(h.query.val).tuple
                              THEN goto(h, "complete") ELSE fail]
              [] h.pc = "complete" ->
                   \* lines 247-258: the stored history is read (the request
                   \* carries none), then the completion call
                   [store |-> sessions,
                    h     |-> IF id \notin DOMAIN sessions THEN key_error
                              ELSE IF h.completion.ok THEN goto(h, "extend") ELSE fail]
              [] h.pc = "extend" ->
                   \* lines 261-264: list.extend on the stored list
                   IF id \notin DOMAIN sessions THEN [store |-> sessions, h |-> key_error]
                   ELSE
                   [store |-> [sessions EXCEPT ![id].history =
                                  @ \o << ChatMessage("user", h.request.message),
                                          ChatMessage("assistant", h.completion.val) >>],
                    h     |-> goto(h, "limit_read")]
              [] h.pc = "limit_read" ->
                   \* line 267 and the right-hand side of line 268
                   IF id \notin DOMAIN sessions THEN [store |-> sessions, h |-> key_error]
                   ELSE
                   [store |-> sessions,
                    h     |-> [h EXCEPT !.pc = "limit_write",
                                        !.sliced =
                                            IF Len(sessions[id].history) > MAX_HISTORY_MESSAGES
                                            THEN Some(LastSlice(sessions[id].history,
                                                                MAX_HISTORY_MESSAGES))
                                            ELSE None]]
              [] h.pc = "limit_write" ->
                   \* the assignment of line 268, and the return
                   IF h.sliced # None /\ id \notin DOMAIN sessions
                   THEN [store |-> sessions, h |-> key_error]
                   ELSE
                   [store |-> IF h.sliced # None
                              THEN [sessions EXCEPT ![id].history = h.sliced[1]]
                              ELSE sessions,
                    h     |-> [h EXCEPT !.pc = "done", !.status = 200]]
    IN  /\ h.request.op = "chat"
        /\ h.pc # "done"
        /\ tasks.running \in { 0, t }
        \* the loop starts the handlers in the order the requests were issued
        /\ \A u \in 1..(t - 1) : tasks.handlers[u].pc # "create"
        /\ sessions' = next.store
        /\ tasks' = [running  |-> IF next.h.pc = "done" \/ h.pc \in YieldPoints THEN 0 ELSE t,
                     handlers |-> [tasks.handlers EXCEPT ![t] = next.h]]

ChatStep ==
    /\ \E t \in 1..Len(tasks.handlers) : chat_step(t)
    /\ UNCHANGED <<program, boot, appended, req, resp, calls, stVars, fnVars>>

\* the handler of DELETE /chat/{session_id}, lines 284-294, runs: it holds
\* no await
clear_session_step(t) ==
    LET h  == tasks.handlers[t]
        id == h.session_id
    IN  /\ h.request.op = "delete"
        /\ h.pc # "done"
        /\ tasks.running \in { 0, t }
        /\ \A u \in 1..(t - 1) : tasks.handlers[u].pc # "create"
        /\ sessions' = [k \in DOMAIN sessions \ {id} |-> sessions[k]]
        /\ tasks' = [running  |-> 0,
                     handlers |-> [tasks.handlers EXCEPT ![t] =
                                      [h EXCEPT !.pc = "done",
                                                !.status = IF id \in DOMAIN sessions
                                                           THEN 200 ELSE 404]]]

ClearSessionStep ==
    /\ \E t \in 1..Len(tasks.handlers) : clear_session_step(t)
    /\ UNCHANGED <<program, boot, appended, req, resp, calls, stVars, fnVars>>

NextOverlap == ChatStep \/ ClearSessionStep

SpecOverlap == InitOverlap /\ [][NextOverlap]_vars

(***************************************************************************)
(* SpecQuery: search_pinecone of api_server and of                         *)
(* pipeline.query_interface, as a function of what the external calls do   *)
(* at the time of the query.                                               *)
(***************************************************************************)
\* pipeline/query_interface.py lines 53-79: the calls made and whether the
\* index is returned.  PINECONE_API_KEY is the module-level credential.
initialize_pinecone(pinecone_key, list_indexes) ==
    IF ~pinecone_key THEN [ok |-> FALSE, calls |-> <<>>]
    ELSE [ok    |-> /\ list_indexes.ok
                    /\ \E i \in 1..Len(list_indexes.val) : list_indexes.val[i] = INDEX_NAME,
          calls |-> << ExternalCall("list_indexes", list_indexes) >>]

\* the embedding call and the index query, lines 109-128 of api_server.py and
\* 115-126 of pipeline/query_interface.py
EmbedAndQuery(embedding, query) ==
    [raised  |-> ~(embedding.ok /\ query.ok),
     matches |-> IF embedding.ok /\ query.ok THEN query.val ELSE <<>>,
     calls   |-> << ExternalCall("embeddings.create", embedding) >>
                 \o (IF embedding.ok THEN << ExternalCall("index.query", query) >> ELSE <<>>)]

\* api_server.search_pinecone: the index is the global that startup_event set
search_pinecone_api(embedding, query) == EmbedAndQuery(embedding, query)

\* pipeline.query_interface.search_pinecone: line 113 calls
\* initialize_pinecone on every query
search_pinecone_pipeline(pinecone_key, list_indexes, embedding, query) ==
    LET init == initialize_pinecone(pinecone_key, list_indexes)
        rest == EmbedAndQuery(embedding, query)
    IN  IF ~init.ok THEN [raised |-> TRUE, matches |-> <<>>, calls |-> init.calls]
        ELSE [rest EXCEPT !.calls = init.calls \o @]

\* a query after an initialization that succeeded; list_indexes is what the
\* call would do at the time of the query
QueryCalls ==
    { [fn |-> "search_pinecone", list_indexes |-> l, embedding |-> e, query |-> q] :
        l \in { b.list_indexes : b \in BootEnvs },
        e \in { Raises, Returns(<<>>) },
        q \in { Raises } \cup { Returns(ms) : ms \in MatchLists } }

InitQuery ==
    /\ program = "search_pinecone"
    /\ Idle
    /\ boot \in { [phase |-> "serving", env |-> e] : e \in { b \in BootEnvs : startup_event(b) = "serving" } }
    /\ st \in SessionStates(program)
    /\ call \in QueryCalls
    /\ result = NoResult

SearchPineconeApi ==
    /\ call.fn = "search_pinecone"
    /\ ~result.done
    /\ LET out == search_pinecone_api(call.embedding, call.query)
       IN  result' = [done |-> TRUE, site |-> "api_server", raised |-> out.raised,
                      matches |-> out.matches, calls |-> out.calls]
    /\ UNCHANGED <<program, boot, tasks, apiVars, stVars, call>>

SearchPineconePipeline ==
    /\ call.fn = "search_pinecone"
    /\ ~result.done
    /\ LET out == search_pinecone_pipeline(boot.env.PINECONE_API_KEY, call.list_indexes,
                                           call.embedding, call.query)
       IN  result' = [done |-> TRUE, site |-> "pipeline.query_interface", raised |-> out.raised,
                      matches |-> out.matches, calls |-> out.calls]
    /\ UNCHANGED <<program, boot, tasks, apiVars, stVars, call>>

NextQuery == SearchPineconeApi \/ SearchPineconePipeline

SpecQuery == InitQuery /\ [][NextQuery]_vars

(***************************************************************************)
(* Properties.                                                             *)
(***************************************************************************)

\* h is the last min(Len(a), MAX_HISTORY_MESSAGES) entries of a, in order
RecentTurns(h, a) ==
    /\ Len(h) = Min(Len(a), MAX_HISTORY_MESSAGES)
    /\ \A i \in 1..Len(h) : h[i] = a[Len(a) - Len(h) + i]

\* C1: after any sequence of successful chat turns the stored history holds at
\* most MAX_HISTORY_MESSAGES turns and is exactly the most recent appended
\* turns in their original order: the last min(2n, 10) after n turns.  Checked
\* for every api_server session against the log of everything appended to it,
\* and for the Streamlit chat_history against its log.
C1_HistoryIsMostRecentTurns ==
    /\ \A id \in DOMAIN sessions :
          /\ Len(sessions[id].history) <= MAX_HISTORY_MESSAGES
          /\ RecentTurns(sessions[id].history, appended[id])
    /\ Len(st.chat_history) <= MAX_HISTORY_MESSAGES
    /\ RecentTurns(st.chat_history, st_log)

\* six turns on one api_server session: 12 appended, 10 kept, the oldest 2 dropped
C1_Witness ==
    \E id \in DOMAIN sessions :
        /\ Len(appended[id]) = 12
        /\ Len(sessions[id].history) = 10
        /\ sessions[id].history[1] = appended[id][3]
        /\ appended[id][1] # appended[id][3]

(***************************************************************************)
(* C2: what a POST /chat step does to the session store.                   *)
(***************************************************************************)
\* the history a session holds after a turn that started from history h
AfterTurn(h, ok) ==
    IF ok
    THEN LastSlice(h \o << ChatMessage("user", req'.message),
                          ChatMessage("assistant", resp'.response) >>,
                   MAX_HISTORY_MESSAGES)
    ELSE h

\* the step is a POST /chat
IsChatStep == program = "api_server" /\ req'.op = "chat"

\* the request names no session: a session with a new id is created, with an
\* empty history before the turn
CreatesFreshSession ==
    \E id \in DOMAIN sessions' \ DOMAIN sessions :
        /\ DOMAIN sessions' = DOMAIN sessions \cup {id}
        /\ sessions'[id].history = AfterTurn(<<>>, resp'.status = 200)
        /\ resp'.status = 200 => resp'.session_id = id
        /\ \A k \in DOMAIN sessions : sessions'[k] = sessions[k]

\* the request names the unseen id x: a session is created under x, with an
\* empty history before the turn
CreatesSessionUnder(x) ==
    /\ DOMAIN sessions' = DOMAIN sessions \cup {x}
    /\ sessions'[x].history = AfterTurn(<<>>, resp'.status = 200)
    /\ resp'.status = 200 => resp'.session_id = x
    /\ \A k \in DOMAIN sessions : sessions'[k] = sessions[k]

\* the request names the stored id x: the session and its history are reused
ReusesSession(x) ==
    /\ DOMAIN sessions' = DOMAIN sessions
    /\ sessions'[x].history = AfterTurn(sessions[x].history, resp'.status = 200)
    /\ resp'.status = 200 => resp'.session_id = x
    /\ \A k \in DOMAIN sessions \ {x} : sessions'[k] = sessions[k]

\* C2 as stated: POST /chat with no session_id creates a session under an id
\* that was not in the store, with an empty history before the turn; with an
\* unseen id it creates a session under that id; with a stored id it reuses
\* that session and its history; the response of a successful turn carries
\* the id used and that id is in the store.
C2_AsStated ==
    [][ IsChatStep =>
          /\ req'.session_id = None => CreatesFreshSession
          /\ \A x \in { req'.session_id[i] : i \in 1..Len(req'.session_id) } :
                IF x \in DOMAIN sessions THEN ReusesSession(x) ELSE CreatesSessionUnder(x)
          /\ resp'.status = 200 => resp'.session_id \in DOMAIN sessions'
      ]_vars

\* C2, amended: as above for a non-empty unseen id; the empty string is treated
\* like an absent session_id (line 233 tests the truth value of the field), so
\* a request whose session_id is "" gets a session under a new id.
C2_SessionGetOrCreate ==
    [][ IsChatStep =>
          /\ Falsy(req'.session_id) => CreatesFreshSession
          /\ \A x \in { req'.session_id[i] : i \in 1..Len(req'.session_id) } :
                x # "" =>
                    IF x \in DOMAIN sessions THEN ReusesSession(x) ELSE CreatesSessionUnder(x)
          /\ resp'.status = 200 => resp'.session_id \in DOMAIN sessions'
      ]_vars

\* a successful request with session_id "" was answered under a new id, while
\* the client's own session has been reused for a second turn
C2_Witness ==
    /\ req.op = "chat"
    /\ req.session_id = Some("")
    /\ resp.status = 200
    /\ resp.session_id \in DOMAIN sessions
    /\ resp.session_id # ""
    /\ "" \notin DOMAIN sessions
    /\ \E c \in ClientIds :
          c \in DOMAIN sessions /\ c # resp.session_id /\ Len(sessions[c].history) = 4

(***************************************************************************)
(* C3, C4: create_chat_prompt (SpecPrompt).                                *)
(***************************************************************************)
SystemMessageOf(site) ==
    IF site = "api_server" THEN SYSTEM_MESSAGE_API ELSE SYSTEM_MESSAGE_STREAMLIT

\* C3: create_chat_prompt returns the fixed system turn, then the last
\* min(len(history), 10) history turns, oldest first and unchanged, then one
\* user turn carrying the question; 1 + min(len(history), 10) + 1 turns for
\* every history, match list and web search context.
C3_PromptStructure ==
    result.done =>
        LET ms == result.messages
            h  == call.chat_history
            k  == Min(Len(h), MAX_HISTORY_MESSAGES)
        IN  /\ Len(ms) = 1 + k + 1
            /\ ms[1] = ChatMessage("system", SystemMessageOf(result.site))
            /\ \A i \in 1..k : ms[1 + i] = h[Len(h) - k + i]
            /\ ms[k + 2].role = "user"
            /\ StartsWith(ms[k + 2].content, "Question: " \o call.query)

\* a history of 12 turns with three retrieved matches: 12 turns in the prompt,
\* the first history turn in it being the third of the history
C3_Witness ==
    /\ result.done
    /\ result.site = "api_server"
    /\ Len(call.chat_history) = 12
    /\ Len(call.matches) = 3
    /\ Len(result.messages) = 12
    /\ result.messages[2] = call.chat_history[3]
    /\ call.chat_history[1] # call.chat_history[3]

\* C4 as stated: for an empty history the assembled prompt has exactly 3 turns.
C4_AsStated ==
    (result.done /\ call.chat_history = <<>>) => Len(result.messages) = 3

\* C4, amended: for an empty history the assembled prompt has exactly 2 turns,
\* the system turn and the user turn (1 + 0 + 1), with or without a web search
\* context.
C4_EmptyHistoryTwoTurns ==
    (result.done /\ call.chat_history = <<>>) =>
        /\ Len(result.messages) = 2
        /\ result.messages[1].role = "system"
        /\ result.messages[2].role = "user"

\* the Streamlit prompt for an empty history and a non-empty web search context
C4_Witness ==
    /\ result.done
    /\ result.site = "udcpr_chatbot_streamlit"
    /\ call.chat_history = <<>>
    /\ call.web_search_context # None
    /\ call.web_search_context # Some("")
    /\ Len(result.messages) = 2
    /\ Contains(result.messages[2].content, "Additional information from web search:")

(***************************************************************************)
(* C5-C7: the relevance classifier (SpecClassify).  The rules are those of *)
(* the call site that produced the result: chat_handler implements rule 1  *)
(* (forced web search) with its own phrase list and no rule 2 or 3;        *)
(* chatbot_web implements rule 2 (temperature, weather), rule 1 with a     *)
(* longer phrase list, and rule 3 (is_non_udcpr_query).                    *)
(***************************************************************************)
ForcePhrases(site) ==
    IF site = "chat_handler" THEN force_web_search_phrases_chat_handler
    ELSE force_web_search_phrases_chatbot_web

ExternalInfoKeywords(site) ==
    IF site = "chat_handler" THEN external_info_keywords_chat_handler
    ELSE external_info_keywords_chatbot_web

MinLength(site) ==
    IF site = "chat_handler" THEN CHAT_HANDLER_MIN_LENGTH ELSE CHATBOT_WEB_MIN_LENGTH

\* rule 1
Rule1(site, prompt) == AnyIn(ForcePhrases(site), lower(prompt))

\* rules 2 and 3, where the call site has them
Rule2(site, prompt) ==
    /\ site = "chatbot_web"
    /\ (Contains(lower(prompt), "temperature") \/ Contains(lower(prompt), "weather"))

Rule3(site, prompt) ==
    /\ site = "chatbot_web"
    /\ is_non_udcpr_query(prompt, AnyIn(location_keywords, lower(prompt)),
                          AnyIn(udcpr_keywords, lower(prompt)))

\* rule 4
Rule4(site, prompt) ==
    \/ AnyIn(greeting_patterns, lower(prompt))
    \/ Len(strip(prompt)) < MinLength(site)

\* C5: at both call sites a query that contains a force-external-search
\* phrase yields sufficiency = false for every match list, also when every
\* match scores 0.99 and when the query is a greeting, is short or contains
\* in-domain keywords.
C5_ForcedSearchWins ==
    (result.done /\ Rule1(result.site, call.prompt)) => ~result.has_relevant_results

\* "hello, most recent news?" (a greeting) with two matches at 0.99, in chat_handler
C5_Witness ==
    /\ result.done
    /\ result.site = "chat_handler"
    /\ call.prompt = "hello, most recent news?"
    /\ call.results = <<M99, M99>>
    /\ AnyIn(greeting_patterns, lower(call.prompt))
    /\ ~result.has_relevant_results

C7_AsStated ==
    (/\ result.done
     /\ AnyIn(udcpr_keywords, lower(call.prompt))
     /\ ~AnyIn(ExternalInfoKeywords(result.site), lower(call.prompt))
     /\ ~Rule1(result.site, call.prompt)
     /\ ~Rule2(result.site, call.prompt)
     /\ ~Rule3(result.site, call.prompt)
     /\ ~Rule4(result.site, call.prompt)
     /\ Len(call.results) >= 1)
    => result.has_relevant_results

\* the scenario of C7: the FSI question with one match at 0.9 is classified as
\* insufficient by chatbot_web (and as sufficient by chat_handler)
C7_FsiScenario ==
    /\ result.done
    /\ call.prompt = "What is the FSI for residential zones?"
    /\ call.results = <<M90>>
    /\ result.site = "chatbot_web"
    /\ ~result.has_relevant_results

(***************************************************************************)
(* C8: the Austin temperature question, end to end in chatbot_web (Spec).  *)
(***************************************************************************)
AustinQuery == "what is the temperature in Austin right now"
AustinRange == "82-97°F (28-36°C)"

\* the last turn was the Austin question in chatbot_web with web search
\* switched on; retrieval and prompt assembly went through
AustinTurn ==
    /\ turn.site = "chatbot_web"
    /\ turn.prompt = AustinQuery
    /\ st.use_web_search
    /\ turn.has_relevant_results # None

\* the three backends gave nothing usable and the direct request went through
NothingUsable(env) ==
    /\ env.encode.ok
    /\ TryEngines(<<>>, 1, env.engines, CALL_SITE_NUM_RESULTS) = <<>>
    /\ env.direct.ok

\* C8 as stated: for the Austin question the classifier yields sufficiency =
\* false, the web search runs and, when the backends return nothing usable,
\* returns the Austin record whose snippet carries "82-97°F (28-36°C)", which
\* is part of the web context block of the final prompt.
C8_AsStated ==
    AustinTurn =>
        /\ turn.has_relevant_results = Some(FALSE)
        /\ turn.env # None
        /\ NothingUsable(turn.env[1]) =>
              /\ \E i \in 1..Len(turn.web_results) :
                    /\ Contains(turn.web_results[i].snippet, "Austin")
                    /\ Contains(turn.web_results[i].snippet, AustinRange)
              /\ turn.web_search_context # None
              /\ Contains(turn.messages[Len(turn.messages)].content, AustinRange)

\* what the code does for the Austin question when the backends return nothing
\* usable: sufficiency is false and the web search runs, but the record is the
\* one for "the requested location" with "varies by region"
C8_GenericRecord ==
    /\ AustinTurn
    /\ turn.has_relevant_results = Some(FALSE)
    /\ turn.env # None
    /\ NothingUsable(turn.env[1])
    /\ Len(turn.web_results) = 2
    /\ turn.web_results[1].title = "Current Weather in the requested location"
    /\ Contains(turn.web_results[1].snippet, "varies by region")
    /\ ~Contains(turn.web_results[1].snippet, AustinRange)
    /\ Contains(turn.messages[Len(turn.messages)].content,
                "Additional information from web search:")

(***************************************************************************)
(* C9, C10: perform_web_search (SpecSearch).                               *)
(***************************************************************************)
\* C9: perform_web_search never raises to its caller and returns a non-empty
\* list, for every query and every combination of failing requests.
C9_NeverRaisesNeverEmpty ==
    result.done => (~result.raised /\ Len(result.results) >= 1)

\* all four requests fail: one record, from the failure branch of the direct
\* approach
C9_Witness ==
    /\ result.done
    /\ call.env = TotalNetworkFailure
    /\ ~result.raised
    /\ Len(result.results) = 1
    /\ result.results[1].source = "Fallback"

\* C10: the returned list never holds two entries with the same title, for
\* every query and every combination of backend answers.
C10_DistinctTitles ==
    result.done =>
        \A i, j \in 1..Len(result.results) :
            i # j => result.results[i].title # result.results[j].title

\* two backends answered with overlapping titles (collected once each), and
\* the returned list has more than one entry
C10_Witness ==
    /\ result.done
    /\ call.env.engines[1] = Returns(<<RawA, RawB>>)
    /\ call.env.engines[2] = Returns(<<RawNoTitle, RawA2, RawA>>)
    /\ call.num_results = 3
    /\ Len(result.collected) = 2
    /\ Len(result.results) >= 2

(***************************************************************************)
(* C11: the size of the list perform_web_search returns (SpecSearch).      *)
(***************************************************************************)
\* C11 as stated: for every query and every num_results >= 1,
\* perform_web_search returns at most num_results results.
C11_AsStated ==
    result.done => Len(result.results) <= call.num_results

\* "Weather in Miami" with num_results = 1 and the direct request answered:
\* the weather branch returns its two records
C11_TwoForOne ==
    /\ result.done
    /\ call.query = "Weather in Miami"
    /\ call.num_results = 1
    /\ call.env.direct.ok
    /\ Len(result.results) = 2
    /\ result.results[1].source = "Weather Fallback"
    /\ result.results[2].source = "Weather Resources"

(***************************************************************************)
(* C12: format_context_from_results (SpecContext).                         *)
(***************************************************************************)
ThresholdOf(site) ==
    IF site = "api_server" THEN API_CONTEXT_THRESHOLD ELSE STREAMLIT_CONTEXT_THRESHOLD

\* the matches with non-empty text and a score strictly above the threshold,
\* in rank order
Surviving(results, threshold) ==
    LET Passes(r) == /\ "metadata" \in DOMAIN r
                     /\ "text" \in DOMAIN r.metadata
                     /\ r.metadata.text # ""
                     /\ "score" \in DOMAIN r
                     /\ r.score > threshold
    IN  SelectSeq(results, Passes)

\* the context part of a surviving match of the pool
ContextPart(r) ==
    "[Source: " \o r.metadata.source \o ", Page: "
    \o (IF "page_num" \in DOMAIN r.metadata THEN r.metadata.page_num ELSE "Unknown")
    \o "]\n" \o r.metadata.text \o "\n"

NoMatchMessages ==
    { "No relevant information found in the UDCPR document.",
      "No sufficiently relevant information found in the UDCPR document." }

FormatContext(site, results) ==
    IF site = "api_server" THEN format_context_from_results_api(results).context
    ELSE format_context_from_results_streamlit(results)

\* C12: the context block is built from exactly the matches with non-empty
\* text and score strictly above the caller's threshold (0.3, 0.5), in rank
\* order; filtering the surviving matches again keeps all of them, and gives
\* the same context block.
C12_KeepsExactlyTheRelevant ==
    result.done =>
        LET kept == Surviving(call.results, ThresholdOf(result.site))
        IN  /\ IF kept = <<>> THEN result.context \in NoMatchMessages
               ELSE result.context = JoinLines([i \in 1..Len(kept) |-> ContextPart(kept[i])])
            /\ Surviving(kept, ThresholdOf(result.site)) = kept
            /\ kept # <<>> => FormatContext(result.site, kept) = result.context

\* three matches of which the middle one has no text: the first and the third
\* make the context block of api_server, in that order
C12_Witness ==
    /\ result.done
    /\ result.site = "api_server"
    /\ call.results = <<M99, MNoText, M31>>
    /\ result.context = JoinLines(<< ContextPart(M99), ContextPart(M31) >>)

(***************************************************************************)
(* C13: the sources of a POST /chat response (Spec).                       *)
(***************************************************************************)
\* the matches the vector index returned to the last request
RetrievedMatches ==
    LET qs == SelectSeq(calls, LAMBDA c : c.fn = "index.query" /\ c.ok)
    IN  IF qs = <<>> THEN <<>> ELSE qs[1].val

\* the sources entry of a surviving match of the pool
SourceEntry(r) ==
    [source |-> r.metadata.source,
     page   |-> IF "page_num" \in DOMAIN r.metadata THEN r.metadata.page_num ELSE "Unknown",
     score  |-> r.score]

\* C13: the sources of a successful POST /chat response are one entry (source,
\* page, score) for each retrieved match with non-empty text and score > 0.3,
\* in rank order, and nothing else.
C13_SourcesAreTheKeptMatches ==
    (req.op = "chat" /\ resp.status = 200) =>
        LET kept == Surviving(RetrievedMatches, API_CONTEXT_THRESHOLD)
        IN  resp.sources = [i \in 1..Len(kept) |-> SourceEntry(kept[i])]

\* three matches retrieved, the third at 0.3: two sources, for the first two
C13_Witness ==
    /\ req.op = "chat"
    /\ resp.status = 200
    /\ RetrievedMatches = <<M99, M96, M30>>
    /\ Len(resp.sources) = 2
    /\ resp.sources[1].score = 99
    /\ resp.sources[2].score = 96

(***************************************************************************)
(* C14: DELETE /chat/{session_id} (Spec).                                  *)
(***************************************************************************)
\* the step is a DELETE /chat/{session_id}
IsDeleteStep == program = "api_server" /\ req'.op = "delete"

\* C14: DELETE /chat/{id} on a stored id removes exactly that session and
\* leaves every other session unchanged; on an id that is not stored it
\* answers 404 and leaves the store unchanged; after either the id is not
\* stored, so that a second delete answers 404 and a later chat on the id
\* starts from an empty history.
C14_DeleteRemovesExactlyOne ==
    [][ /\ IsDeleteStep =>
              LET x == req'.session_id[1]
              IN  /\ IF x \in DOMAIN sessions
                     THEN /\ resp'.status = 200
                          /\ DOMAIN sessions' = DOMAIN sessions \ {x}
                          /\ \A k \in DOMAIN sessions' : sessions'[k] = sessions[k]
                     ELSE /\ resp'.status = 404
                          /\ sessions' = sessions
                  /\ x \notin DOMAIN sessions'
        /\ (IsChatStep /\ req.op = "delete" /\ req'.session_id = req.session_id) =>
              sessions'[req.session_id[1]].history = AfterTurn(<<>>, resp'.status = 200)
      ]_vars

\* a stored session has been deleted while another session keeps its history
C14_Witness ==
    /\ req.op = "delete"
    /\ resp.status = 200
    /\ req.session_id[1] \notin DOMAIN sessions
    /\ \E k \in DOMAIN sessions : Len(sessions[k].history) >= 2

(***************************************************************************)
(* C15: GET /health (Spec).                                                *)
(***************************************************************************)
\* the probe fn was made by the last request
Probed(fn) == \E i \in 1..Len(calls) : calls[i].fn = fn

\* the probe fn was made by the last request and succeeded
ProbeOk(fn) == \E i \in 1..Len(calls) : calls[i].fn = fn /\ calls[i].ok

\* the probe fn was made by the last request, failed, and its error is in the
\* detail of the answer
ErrorReported(fn) ==
    \E i \in 1..Len(calls) : calls[i].fn = fn /\ ~calls[i].ok /\ Contains(resp.detail, calls[i].val)

\* C15 as stated: GET /health probes both backends on every check, answers
\* healthy if and only if both probes succeed, and otherwise answers 503 with
\* the error of the backend that failed.
C15_AsStated ==
    req.op = "health" =>
        /\ Probed("models.list")
        /\ Probed("index.describe_index_stats")
        /\ resp.status = 200 <=> (ProbeOk("models.list") /\ ProbeOk("index.describe_index_stats"))
        /\ resp.status # 200 =>
              /\ resp.status = 503
              /\ ErrorReported("models.list") \/ ErrorReported("index.describe_index_stats")

\* C15, amended: GET /health probes the embedding/completion backend on every
\* check and the vector index only when the first probe succeeded; it answers
\* healthy if and only if both probes were made and succeeded, and otherwise
\* answers 503 with the error of the first probe that failed.
C15_HealthyIffBothProbesSucceed ==
    req.op = "health" =>
        /\ Probed("models.list")
        /\ Probed("index.describe_index_stats") <=> ProbeOk("models.list")
        /\ resp.status = 200 <=> (ProbeOk("models.list") /\ ProbeOk("index.describe_index_stats"))
        /\ resp.status # 200 =>
              /\ resp.status = 503
              /\ ErrorReported(calls[Len(calls)].fn)

\* the first probe succeeded, the second failed: 503 with the index's error
C15_Witness ==
    /\ req.op = "health"
    /\ Len(calls) = 2
    /\ ProbeOk("models.list")
    /\ resp.status = 503
    /\ ErrorReported("index.describe_index_stats")

(***************************************************************************)
(* C16: initialization (Spec).                                             *)
(***************************************************************************)
\* a required credential is missing, or the vector index does not exist
InitializationMustFail(env) ==
    \/ ~env.OPENAI_API_KEY
    \/ ~env.PINECONE_API_KEY
    \/ /\ env.list_indexes.ok
       /\ \A i \in 1..Len(env.list_indexes.val) : env.list_indexes.val[i] # INDEX_NAME

\* no request and no chat turn has been processed
NothingProcessed ==
    /\ req = IdleReq
    /\ sessions = EmptyMap
    /\ turn = IdleTurn
    /\ st.chat_history = <<>>

\* C16: when a required credential is missing or the vector index does not
\* exist, initialization fails (startup_event raises, the Streamlit script
\* stops before the chat input) and no chat turn is ever processed.
C16_NoServiceAfterFailedInit ==
    (boot.phase # "none" /\ InitializationMustFail(boot.env)) =>
        /\ boot.phase \in { "starting", "failed", "stopped" }
        /\ program = "api_server" => boot.phase # "stopped"
        /\ program = "udcpr_chatbot_streamlit" => boot.phase # "failed"
        /\ NothingProcessed

\* startup_event has raised: both credentials are present, the index is not
\* among the indexes listed
C16_Witness ==
    /\ program = "api_server"
    /\ boot.phase = "failed"
    /\ boot.env.OPENAI_API_KEY
    /\ boot.env.PINECONE_API_KEY
    /\ boot.env.list_indexes = Returns(<< "other-index" >>)
    /\ NothingProcessed

(***************************************************************************)
(* C17: a streamed completion that raises (Spec).                          *)
(***************************************************************************)
\* the number of steps of the last turn that are s
StepCount(s) == Cardinality({ i \in 1..Len(turn.steps) : turn.steps[i] = s })

\* the last turn started the streamed completion, and the stream raised
StreamRaised ==
    /\ turn.site # "none"
    /\ StepCount("completion") = 1
    /\ turn.outcome # "streamed"

\* C17 as stated: at every call site that streams the completion, a stream
\* that raises is followed by exactly one non-streaming fallback call, the
\* text streamed until then is never recorded as the assistant's turn, and the
\* turn ends in an error only if the fallback call was made and failed.
C17_AsStated ==
    StreamRaised =>
        /\ StepCount("generate_response") = 1
        /\ turn.partial # "" =>
              \A i \in 1..Len(st.chat_history) : st.chat_history[i].content # turn.partial
        /\ turn.outcome \in { "fallback", "error" }

\* udcpr_chatbot_streamlit: the stream raised after "The basic" had arrived;
\* the turn ended in an error without a fallback call, and nothing was
\* recorded
C17_NoFallback ==
    /\ turn.site = "udcpr_chatbot_streamlit"
    /\ StreamRaised
    /\ turn.partial = PartialText
    /\ StepCount("generate_response") = 0
    /\ turn.outcome = "error"
    /\ st.chat_history = st_log
    /\ \A i \in 1..Len(st.chat_history) : st.chat_history[i].content # PartialText

(***************************************************************************)
(* C18: POST /chat when an external call raises (Spec).                    *)
(***************************************************************************)
ExternalCallNames == { "embeddings.create", "index.query", "chat.completions.create" }

\* C18: when the embedding call, the index query or the completion call
\* raises during POST /chat, the answer is HTTP 500, each of the three calls
\* has been made at most once in the request, and no history has changed (a
\* session the request created has an empty history).
C18_FailureLeavesHistories ==
    [][ (IsChatStep /\ \E i \in 1..Len(calls') : ~calls'[i].ok) =>
          /\ resp'.status = 500
          /\ \A fn \in ExternalCallNames :
                Cardinality({ i \in 1..Len(calls') : calls'[i].fn = fn }) <= 1
          /\ \A i \in 1..Len(calls') : calls'[i].fn \in ExternalCallNames
          /\ \A k \in DOMAIN sessions' :
                sessions'[k].history = IF k \in DOMAIN sessions THEN sessions[k].history ELSE <<>>
      ]_vars

\* the completion call of a request on a session with two earlier turns has
\* raised: 500, three calls made, the two turns still stored
C18_Witness ==
    /\ req.op = "chat"
    /\ resp.status = 500
    /\ Len(calls) = 3
    /\ calls[3].fn = "chat.completions.create"
    /\ ~calls[3].ok
    /\ req.session_id # None
    /\ req.session_id[1] \in DOMAIN sessions
    /\ Len(sessions[req.session_id[1]].history) = 4
    /\ sessions[req.session_id[1]].history = appended[req.session_id[1]]


(***************************************************************************)
(* C19, C20: overlapping chat requests on one session                      *)
(***************************************************************************)
Succeeded(t) ==
    /\ tasks.handlers[t].request.op = "chat"
    /\ tasks.handlers[t].pc = "done"
    /\ tasks.handlers[t].status = 200

\* the stored history holds the user turn of handler t at i and its assistant
\* turn at i + 1
PairAt(t, i) ==
    LET h       == tasks.handlers[t]
        history == sessions[h.session_id].history
    IN  /\ i + 1 <= Len(history)
        /\ history[i] = ChatMessage("user", h.request.message)
        /\ history[i + 1] = ChatMessage("assistant", h.completion.val)

PairPositions(t) ==
    { i \in 1..Len(sessions[tasks.handlers[t].session_id].history) : PairAt(t, i) }

BothSucceededOnOneSession ==
    /\ Len(tasks.handlers) = 2
    /\ Succeeded(1)
    /\ Succeeded(2)
    /\ tasks.handlers[1].session_id = tasks.handlers[2].session_id

\* C19: when request A (handler 1, started first) and request B (handler 2)
\* on the same session id have both succeeded, the stored history holds A's
\* user/assistant pair before B's, however the event loop has run the two
\* handlers.
C19_ChronologicalOrder ==
    BothSucceededOnOneSession =>
        \E i \in PairPositions(1), j \in PairPositions(2) : i + 1 < j

\* both requests have succeeded on a session that did not exist before: the
\* history is A's pair, then B's
C19_Witness ==
    /\ BothSucceededOnOneSession
    /\ Len(sessions[tasks.handlers[1].session_id].history) = 4
    /\ PairAt(1, 1)
    /\ PairAt(2, 3)

\* C20: after two overlapping chat requests, the history of every request
\* that succeeded holds that request's user turn immediately followed by its
\* own assistant turn, and no stored history is longer than
\* MAX_HISTORY_MESSAGES.
C20_NoLostUpdate ==
    (\A t \in 1..Len(tasks.handlers) :
        tasks.handlers[t].request.op = "chat" /\ tasks.handlers[t].pc = "done") =>
        /\ \A t \in 1..Len(tasks.handlers) : Succeeded(t) => PairPositions(t) # {}
        /\ \A k \in DOMAIN sessions : Len(sessions[k].history) <= MAX_HISTORY_MESSAGES

\* both requests have succeeded on a session that held MAX_HISTORY_MESSAGES
\* turns: the four oldest turns are gone, both pairs are stored
C20_Witness ==
    /\ BothSucceededOnOneSession
    /\ Len(sessions[tasks.handlers[1].session_id].history) = MAX_HISTORY_MESSAGES
    /\ sessions[tasks.handlers[1].session_id].history[1].content = "turn 5"
    /\ PairPositions(1) # {}
    /\ PairPositions(2) # {}

(***************************************************************************)
(* C21-C23: the relevance classifier (SpecClassify), continued             *)
(***************************************************************************)
MentionsWeather(prompt) ==
    Contains(lower(prompt), "temperature") \/ Contains(lower(prompt), "weather")

\* C21 as stated: at both call sites a query that contains "temperature" or
\* "weather" (in any letter case) yields sufficiency = false for every match
\* list.
C21_AsStated ==
    (result.done /\ MentionsWeather(call.prompt)) => ~result.has_relevant_results

\* "Weather in Miami" with two matches at 0.99 in chat_handler, which has no
\* test for the two words: the scores decide, sufficiency = true
C21_WeatherByScore ==
    /\ result.done
    /\ result.site = "chat_handler"
    /\ call.prompt = "Weather in Miami"
    /\ call.results = <<M99, M99>>
    /\ MentionsWeather(call.prompt)
    /\ result.has_relevant_results

\* rule 5: an in-domain keyword, no external-info keyword, at least one match
Rule5(site, prompt, results) ==
    /\ AnyIn(udcpr_keywords, lower(prompt))
    /\ ~AnyIn(ExternalInfoKeywords(site), lower(prompt))
    /\ Len(results) >= 1

NoRuleUpTo5(site, prompt, results) ==
    /\ ~Rule1(site, prompt)
    /\ ~Rule2(site, prompt)
    /\ ~Rule3(site, prompt)
    /\ ~Rule4(site, prompt)
    /\ ~Rule5(site, prompt, results)

\* a match without a score counts as 0; the comparison is strict
SomeScoreAbove(results, threshold) ==
    \E i \in 1..Len(results) :
        (IF "score" \in DOMAIN results[i] THEN results[i].score ELSE 0) > threshold

SiteThreshold(site) ==
    IF site = "chat_handler" THEN CHAT_HANDLER_THRESHOLD ELSE CHATBOT_WEB_THRESHOLD

\* C22 as stated: at both call sites, for a query that triggers none of rules
\* 1-5, sufficiency is true exactly when some match scores strictly above the
\* site's threshold (0.75, 0.95).
C22_AsStated ==
    (result.done /\ NoRuleUpTo5(result.site, call.prompt, call.results)) =>
        (result.has_relevant_results
            <=> SomeScoreAbove(call.results, SiteThreshold(result.site)))

\* "latest building rules" in chatbot_web with two matches at 0.99: none of
\* rules 1-5 applies, a score is above 0.95, and sufficiency is false
C22_ExternalKeywordGate ==
    /\ result.done
    /\ result.site = "chatbot_web"
    /\ call.prompt = "latest building rules"
    /\ call.results = <<M99, M99>>
    /\ NoRuleUpTo5(result.site, call.prompt, call.results)
    /\ SomeScoreAbove(call.results, CHATBOT_WEB_THRESHOLD)
    /\ ~result.has_relevant_results

InDomain(prompt) == AnyIn(udcpr_keywords, lower(prompt))

\* C23 as stated: in chatbot_web a query with a time-currency word or a
\* non-domain location and no in-domain keyword yields sufficiency = false,
\* and a query with an in-domain keyword and neither "temperature" nor
\* "weather" is not classified as non-domain by is_non_udcpr_query.
C23_AsStated ==
    (result.done /\ result.site = "chatbot_web") =>
        /\ (/\ ~InDomain(call.prompt)
            /\ \/ AnyIn(time_indicators, lower(call.prompt))
               \/ AnyIn(location_keywords, lower(call.prompt)))
           => ~result.has_relevant_results
        /\ (InDomain(call.prompt) /\ ~MentionsWeather(call.prompt))
           => ~result.is_non_udcpr_query

\* "cold storage building norms" (in-domain "building", no "temperature", no
\* "weather") with two matches at 0.99: the word "cold" makes it a non-domain
\* query and sufficiency is false
C23_ColdStorage ==
    /\ result.done
    /\ result.site = "chatbot_web"
    /\ call.prompt = "cold storage building norms"
    /\ call.results = <<M99, M99>>
    /\ InDomain(call.prompt)
    /\ ~MentionsWeather(call.prompt)
    /\ ~Rule1(result.site, call.prompt)
    /\ ~AnyIn(external_info_keywords_chatbot_web, lower(call.prompt))
    /\ result.is_non_udcpr_query
    /\ ~result.has_relevant_results

(***************************************************************************)
(* C24: perform_web_search (SpecSearch), continued                         *)
(***************************************************************************)
EngineNames == { "Google", "Bing", "DuckDuckGo" }

\* C24 as stated: when the backends have produced results with a title and a
\* link, perform_web_search returns their title-deduplicated aggregate, first
\* found first; the synthetic records are returned only when nothing was
\* collected.
C24_AsStated ==
    (result.done /\ call.env.encode.ok /\ Len(result.collected) >= 1) =>
        /\ result.results = result.collected
        /\ \A i \in 1..Len(result.results) : result.results[i].source \in EngineNames

\* two backends answered and two distinct titles were collected, yet every
\* returned record is a synthetic one
C24_CollectedDropped ==
    /\ result.done
    /\ call.env.encode.ok
    /\ call.env.engines[1] = Returns(<<RawA, RawB>>)
    /\ call.num_results = 3
    /\ Len(result.collected) >= 2
    /\ \A i \in 1..Len(result.collected) : result.collected[i].source \in EngineNames
    /\ Len(result.results) >= 1
    /\ \A i \in 1..Len(result.results) : result.results[i].source \notin EngineNames

(***************************************************************************)
(* C25: the order of the steps of a Streamlit chat turn (Spec)             *)
(***************************************************************************)
StepRank ==
    [retrieval |-> 1, classify |-> 2, web_search |-> 3, prompt |-> 4, completion |-> 5,
     generate_response |-> 6, history |-> 7]

Did(step) == \E i \in 1..Len(turn.steps) : turn.steps[i] = step

\* web search is switched on and, in chat_handler, the module is importable
WebSearchEnabled ==
    /\ st.use_web_search
    /\ turn.site = "chat_handler" => st.WEB_SEARCH_AVAILABLE

\* C25: in every chat turn of chat_handler and chatbot_web the steps taken
\* are in the order retrieval, sufficiency decision, web search, prompt
\* assembly, completion, history update, starting with retrieval; the web
\* search runs exactly when web search is enabled and the classifier said
\* "insufficient"; the history is updated only after a completion has
\* returned, and then ends with the turn's question and that answer.
C25_StepOrder ==
    turn.site \in { "chat_handler", "chatbot_web" } =>
        /\ Len(turn.steps) >= 1
        /\ turn.steps[1] = "retrieval"
        /\ \A i, j \in 1..Len(turn.steps) :
              i < j => StepRank[turn.steps[i]] < StepRank[turn.steps[j]]
        /\ Did("classify") <=> (Did("prompt") /\ WebSearchEnabled)
        /\ Did("web_search") <=>
              (WebSearchEnabled /\ turn.has_relevant_results = Some(FALSE))
        /\ Did("web_search") => turn.env # None
        /\ Did("history") <=> turn.outcome \in { "streamed", "fallback" }
        /\ Did("history") =>
              /\ Did("completion") \/ Did("generate_response")
              /\ Len(st.chat_history) >= 2
              /\ st.chat_history[Len(st.chat_history) - 1] = ChatMessage("user", turn.prompt)
              /\ st.chat_history[Len(st.chat_history)] = ChatMessage("assistant", turn.response)
        /\ turn.outcome = "streamed" => ~Did("generate_response")

\* a chat_handler turn that took all six steps
C25_Witness ==
    /\ turn.site = "chat_handler"
    /\ turn.steps = << "retrieval", "classify", "web_search", "prompt", "completion", "history" >>
    /\ WebSearchEnabled
    /\ turn.has_relevant_results = Some(FALSE)
    /\ turn.outcome = "streamed"

(***************************************************************************)
(* C26: what a query calls (SpecQuery)                                     *)
(***************************************************************************)
\* C26 as stated: after an initialization that succeeded, a query makes only
\* the embedding call and the index query, in api_server.search_pinecone and
\* in pipeline.query_interface.search_pinecone.
C26_AsStated ==
    result.done =>
        \A i \in 1..Len(result.calls) :
            result.calls[i].fn \in { "embeddings.create", "index.query" }

\* a query through pipeline.query_interface that returned matches: the
\* indexes were listed before the embedding call and the index query
C26_ListedPerQuery ==
    /\ result.done
    /\ result.site = "pipeline.query_interface"
    /\ ~result.raised
    /\ Len(result.matches) >= 1
    /\ Len(result.calls) = 3
    /\ result.calls[1].fn = "list_indexes"
    /\ result.calls[2].fn = "embeddings.create"
    /\ result.calls[3].fn = "index.query"

(***************************************************************************)
(* C27-C30: the session store of api_server (Spec)                         *)
(***************************************************************************)
\* the last request was a POST /chat whose index query returned no match
EmptyMatchList ==
    /\ req.op = "chat"
    /\ Len(calls) >= 2
    /\ calls[2].fn = "index.query"
    /\ calls[2].ok
    /\ calls[2].val = <<>>

\* C27 as stated: when the index query returns an empty match list, POST
\* /chat answers 200 with a response and an empty sources list, and the
\* user/assistant pair is appended to the session history.
C27_AsStated ==
    EmptyMatchList =>
        /\ resp.status = 200
        /\ resp.sources = <<>>
        /\ resp.session_id \in DOMAIN sessions
        /\ Len(sessions[resp.session_id].history) >= 2
        /\ sessions[resp.session_id].history[Len(sessions[resp.session_id].history) - 1]
              = ChatMessage("user", req.message)

\* the index query returned no match: no completion call was made and the
\* answer is 500 with the unpacking error
C27_UnpackError ==
    /\ EmptyMatchList
    /\ Len(calls) = 2
    /\ resp.status = 500
    /\ resp.detail = "Internal server error: too many values to unpack (expected 2)"

\* C28 as stated: a POST /chat that fails leaves the session store as it was:
\* the same session ids, the same histories.
C28_AsStated ==
    [][ (IsChatStep /\ resp'.status = 500) => sessions' = sessions ]_vars

\* a failed POST /chat on an id the client chose: the id is in the store, with
\* an empty history
C28_SessionLeftBehind ==
    /\ req.op = "chat"
    /\ resp.status = 500
    /\ req.session_id # None
    /\ req.session_id[1] \in DOMAIN sessions
    /\ sessions[req.session_id[1]].history = <<>>
    /\ appended[req.session_id[1]] = <<>>

\* C29: a DELETE /chat/{id} issued while a POST /chat on the same id is being
\* handled never makes the chat handler look up a session that is not in the
\* store: no chat handler ends in a KeyError, and a chat request whose three
\* external calls succeed is answered 200.
C29_NoAbsentSession ==
    \A t \in 1..Len(tasks.handlers) :
        LET h == tasks.handlers[t]
        IN  h.request.op = "chat" =>
                /\ h.error # "KeyError"
                /\ (/\ h.pc = "done"
                    /\ h.embedding.ok /\ h.query.ok /\ h.completion.ok
                    /\ format_context_from_results_api(h.query.val).tuple)
                   => h.status = 200

\* the chat request has been answered 200 and the DELETE on the same id has
\* then removed the session
C29_Witness ==
    /\ Len(tasks.handlers) = 2
    /\ tasks.handlers[1].request.op = "chat"
    /\ tasks.handlers[1].pc = "done"
    /\ tasks.handlers[1].status = 200
    /\ tasks.handlers[2].request.op = "delete"
    /\ tasks.handlers[2].session_id = tasks.handlers[1].session_id
    /\ tasks.handlers[2].pc = "done"
    /\ tasks.handlers[2].status = 200
    /\ tasks.handlers[1].session_id \notin DOMAIN sessions

\* user, assistant, user, assistant, ...: even length, starting with a user turn
Alternates(history) ==
    /\ Len(history) % 2 = 0
    /\ \A i \in 1..Len(history) :
          history[i].role = IF i % 2 = 1 THEN "user" ELSE "assistant"

\* C30: in api_server every stored session history has even length and
\* alternates user, assistant, starting with a user turn, after any sequence
\* of chat and delete requests; every user turn is followed by the assistant
\* turn that was appended with it.
C30_PairsStayTogether ==
    program = "api_server" =>
        \A k \in DOMAIN sessions :
            /\ Alternates(sessions[k].history)
            /\ \A i \in 1..Len(sessions[k].history) :
                  i % 2 = 1 =>
                      \E j \in 1..Len(appended[k]) :
                          /\ j % 2 = 1
                          /\ appended[k][j] = sessions[k].history[i]
                          /\ appended[k][j + 1] = sessions[k].history[i + 1]

\* a session whose history has been cut: more than MAX_HISTORY_MESSAGES turns
\* were appended, MAX_HISTORY_MESSAGES are stored, the first a user turn
C30_Witness ==
    /\ program = "api_server"
    /\ \E k \in DOMAIN sessions :
          /\ Len(appended[k]) > MAX_HISTORY_MESSAGES
          /\ Len(sessions[k].history) = MAX_HISTORY_MESSAGES
          /\ sessions[k].history[1].role = "user"
          /\ sessions[k].history[MAX_HISTORY_MESSAGES].role = "assistant"
====
